---------------------------- MODULE Spec2Model ----------------------------
(***************************************************************************)
(* Verification model of momoden-password: the password cipher, the        *)
(* checksum, the bit-level field codec and the equipment normalizer.       *)
(*                                                                         *)
(* Values: a PasswordChar and a SerializedByte are modelled by their u8    *)
(* value (0..63); a Password and a SerializedBytes by the sequence of      *)
(* their elements (index i of the code is index i+1 here); an Option by    *)
(* None / Some(x).                                                         *)
(***************************************************************************)
EXTENDS Integers, Sequences, FiniteSets, TLC

VARIABLES
    password,       \* Option<Password> held by the caller
    bytes,          \* Option<SerializedBytes> held by the caller
    savedata,       \* Option<Savedata>: the raw (decoded or constructed) state
    savedata_norm,  \* Option<Savedata>: the result of savedata.normalize()
    report,         \* what the last operation returned / printed
    arg,            \* Option: the slice handed to the constructor that ran last
    text,           \* Option: the text handed to parse or rendered by display
    error,          \* Option<PasswordParseError> of the parse that ran last
    last            \* name of the last operation

vars == <<password, bytes, savedata, savedata_norm, report, arg, text, error, last>>

---------------------------------------------------------------------------
(* Option and machine arithmetic                                           *)

None == <<>>
Some(x) == <<x>>
IsSome(o) == o # None
Unwrap(o) == o[1]

\* The outcome of an out-of-range slice index (a Rust panic); no u8 value.
Panic == 0 - 1

RECURSIVE XorBits(_, _)
\* a ^ b on unsigned integers, bit by bit
XorBits(a, b) ==
    IF a = 0 THEN b
    ELSE IF b = 0 THEN a
    ELSE 2 * XorBits(a \div 2, b \div 2) + ((a + b) % 2)

\* XorBits on the 6-bit values, tabulated once
XorTable == [a \in 0..63 |-> [b \in 0..63 |-> XorBits(a, b)]]

\* a ^ b
Xor(a, b) ==
    IF a \in 0..63 /\ b \in 0..63 THEN XorTable[a][b] ELSE XorBits(a, b)

RECURSIVE Pow2(_)
Pow2(n) == IF n = 0 THEN 1 ELSE 2 * Pow2(n - 1)

\* u8::wrapping_add / u8::wrapping_sub
wrapping_add(a, b) == (a + b) % 256
wrapping_sub(a, b) == (a - b + 256) % 256

\* b & 0x3F on a u8
And3F(b) == b % 64

\* slice[i] with Rust's bounds check (i is the 0-based index of the code)
At(s, i) == IF i >= 0 /\ i < Len(s) THEN s[i + 1] ELSE Panic

---------------------------------------------------------------------------
(* password.rs: Password                                                   *)

MIN_LEN == 1
MAX_LEN == 38

\* The symbols 0..=0x3F of PasswordChar / SerializedByte.
Symbol == 0..63

---------------------------------------------------------------------------
(* serialized.rs: the cipher                                               *)

\* the table with an even second entry
ENCODE_ADD_TABLE_even == <<5, 24, 50, 33>>

ENCODE_ADD_TABLE == <<5, 25, 50, 33>>

\* ENCODE_ADD_TABLE[i % 4]
EncodeAdd(i) == ENCODE_ADD_TABLE[(i % 4) + 1]

RECURSIVE DecodeXorLoop(_, _)
\* for i in (1..inner.len()).rev() { inner[i] ^= inner[i - 1]; }
DecodeXorLoop(inner, i) ==
    IF i < 1 THEN inner
    ELSE DecodeXorLoop([inner EXCEPT ![i + 1] = Xor(inner[i + 1], inner[i])], i - 1)

RECURSIVE EncodeXorLoop(_, _)
\* for i in 1..inner.len() { inner[i] ^= inner[i - 1]; }
EncodeXorLoop(inner, i) ==
    IF i >= Len(inner) THEN inner
    ELSE EncodeXorLoop([inner EXCEPT ![i + 1] = Xor(inner[i + 1], inner[i])], i + 1)

\* from_password with the XOR loop run forward (1..len instead of its
\* reverse), so that each step reads an already decoded predecessor
from_password_forward_xor(pw) ==
    LET x1 == EncodeXorLoop(pw, 1)
        x2 == [x1 EXCEPT ![1] = Xor(x1[1], 31)]
    IN  [i \in 1..Len(pw) |-> And3F(wrapping_sub(x2[i], EncodeAdd(i - 1)))]

\* from_password subtracting the table entry of position i + 1
from_password_table_shifted(pw) ==
    LET x1 == DecodeXorLoop(pw, Len(pw) - 1)
        x2 == [x1 EXCEPT ![1] = Xor(x1[1], 31)]
    IN  [i \in 1..Len(pw) |-> And3F(wrapping_sub(x2[i], EncodeAdd(i)))]

\* SerializedBytes::from_password
from_password(pw) ==
    LET x1 == DecodeXorLoop(pw, Len(pw) - 1)
        x2 == [x1 EXCEPT ![1] = Xor(x1[1], 31)]
    IN  [i \in 1..Len(pw) |-> And3F(wrapping_sub(x2[i], EncodeAdd(i - 1)))]

\* to_password with the XOR chain run before the additions
to_password_xor_first(b) ==
    LET a1 == [b EXCEPT ![1] = Xor(b[1], 31)]
        a2 == EncodeXorLoop(a1, 1)
    IN  [i \in 1..Len(b) |-> And3F(wrapping_add(a2[i], EncodeAdd(i - 1)))]

\* SerializedBytes::to_password
to_password(b) ==
    LET a1 == [i \in 1..Len(b) |-> And3F(wrapping_add(b[i], EncodeAdd(i - 1)))]
        a2 == [a1 EXCEPT ![1] = Xor(a1[1], 31)]
    IN  EncodeXorLoop(a2, 1)

---------------------------------------------------------------------------
(* checksum.rs / serialized.rs: the checksum                               *)

ChecksumMAX == 63

\* Checksum::new
Checksum(sum_add, sum_xor) == [sum_add |-> sum_add, sum_xor |-> sum_xor]

\* checksum_embed reading self[1] without the length test
checksum_embed_unguarded(b) == Checksum(At(b, 0), At(b, 1))

\* checksum_embed taking 0, not ChecksumXor::MAX, for a missing second symbol
checksum_embed_default_zero(b) ==
    Checksum(At(b, 0), IF Len(b) >= 2 THEN At(b, 1) ELSE 0)

\* checksum_embed with the two symbols exchanged
checksum_embed_swapped(b) ==
    Checksum(IF Len(b) >= 2 THEN At(b, 1) ELSE ChecksumMAX, At(b, 0))

\* SerializedBytes::checksum_embed
checksum_embed(b) ==
    LET sum_add == At(b, 0)
        sum_xor == IF Len(b) >= 2 THEN At(b, 1) ELSE ChecksumMAX
    IN  Checksum(sum_add, sum_xor)

RECURSIVE ChecksumLoop(_, _, _, _)
\* for b in self[2..] { sum_add = sum_add.wrapping_add(b); sum_xor ^= b; }
ChecksumLoop(b, i, sum_add, sum_xor) ==
    IF i >= Len(b) THEN <<sum_add, sum_xor>>
    ELSE ChecksumLoop(b, i + 1, wrapping_add(sum_add, b[i + 1]), Xor(sum_xor, b[i + 1]))

\* checksum_calculated summing self[1..] instead of self[2..]
checksum_calculated_from_1(b) ==
    IF Len(b) <= 2 THEN Checksum(ChecksumMAX, ChecksumMAX)
    ELSE LET s == ChecksumLoop(b, 1, 0, 0)
         IN  Checksum(And3F(s[1]), s[2])

RECURSIVE ChecksumLoopSaturating(_, _, _, _)
\* the loop of checksum_calculated with saturating_add for wrapping_add
ChecksumLoopSaturating(b, i, sum_add, sum_xor) ==
    IF i >= Len(b) THEN <<sum_add, sum_xor>>
    ELSE ChecksumLoopSaturating(b, i + 1,
             IF sum_add + b[i + 1] > 255 THEN 255 ELSE sum_add + b[i + 1],
             Xor(sum_xor, b[i + 1]))

\* checksum_calculated accumulating with saturating_add
checksum_calculated_saturating(b) ==
    IF Len(b) <= 2 THEN Checksum(ChecksumMAX, ChecksumMAX)
    ELSE LET s == ChecksumLoopSaturating(b, 2, 0, 0)
         IN  Checksum(And3F(s[1]), s[2])

\* SerializedBytes::checksum_calculated
checksum_calculated(b) ==
    IF Len(b) <= 2 THEN Checksum(ChecksumMAX, ChecksumMAX)
    ELSE LET s == ChecksumLoop(b, 2, 0, 0)
         IN  Checksum(And3F(s[1]), s[2])

\* SerializedBytes::checksum_is_ok
checksum_is_ok(b) == checksum_embed(b) = checksum_calculated(b)

\* Password::is_valid
is_valid(pw) == checksum_is_ok(from_password(pw))

---------------------------------------------------------------------------
(* savedata.rs: the game state                                             *)

\* BoundedU8::MAX of the bounded fields
DepositMAX == 63
RespawnIdMAX == 15
HelmIndexMAX == 3
WeaponIndexMAX == 15
ArmorIndexMAX == 15
ShoesIndexMAX == 7
Accessory0IndexMAX == 3
Accessory1IndexMAX == 3
Accessory2IndexMAX == 1
Accessory3IndexMAX == 1
ItemIdMIN == 1
ItemIdMAX == 63
\* capacity of Inventory = ArrayVec<ItemId, 8>
InventoryCAP == 8

SpellsOf(kintan, rokkaku, inazuma, hien, mankintan, fuyuu, dadadidi, houhi) ==
    [kintan |-> kintan, rokkaku |-> rokkaku, inazuma |-> inazuma, hien |-> hien,
     mankintan |-> mankintan, fuyuu |-> fuyuu, dadadidi |-> dadadidi, houhi |-> houhi]

EventsOf(hanasaka, kintaro, urashima, netaro, murata, sarukani, dragon, hohoemi) ==
    [hanasaka |-> hanasaka, kintaro |-> kintaro, urashima |-> urashima,
     netaro |-> netaro, murata |-> murata, sarukani |-> sarukani,
     dragon |-> dragon, hohoemi |-> hohoemi]

TreasuresOf(dragon, fur, hotoke, hourai, swallow) ==
    [dragon |-> dragon, fur |-> fur, hotoke |-> hotoke, hourai |-> hourai,
     swallow |-> swallow]

MinionsOf(dog, pheasant, monkey) ==
    [dog |-> dog, pheasant |-> pheasant, monkey |-> monkey]

BookmarksOf(tabidachi, hanasaka, kintaro, urashima, netaro, kibou, sarukani, taketori, hohoemi, hien) ==
    [tabidachi |-> tabidachi, hanasaka |-> hanasaka, kintaro |-> kintaro,
     urashima |-> urashima, netaro |-> netaro, kibou |-> kibou,
     sarukani |-> sarukani, taketori |-> taketori, hohoemi |-> hohoemi,
     hien |-> hien]

\* Spells::ALL, Events::ALL, Treasures::ALL, Minions::ALL, Bookmarks::ALL
SpellsALL == SpellsOf(TRUE, TRUE, TRUE, TRUE, TRUE, TRUE, TRUE, TRUE)
EventsALL == EventsOf(TRUE, TRUE, TRUE, TRUE, TRUE, TRUE, TRUE, TRUE)
TreasuresALL == TreasuresOf(TRUE, TRUE, TRUE, TRUE, TRUE)
MinionsALL == MinionsOf(TRUE, TRUE, TRUE)
BookmarksALL == BookmarksOf(TRUE, TRUE, TRUE, TRUE, TRUE, TRUE, TRUE, TRUE, TRUE, TRUE)

EquipmentOf(helm, weapon, armor, shoes, accessory0, accessory1, accessory2, accessory3) ==
    [helm |-> helm, weapon |-> weapon, armor |-> armor, shoes |-> shoes,
     accessory0 |-> accessory0, accessory1 |-> accessory1,
     accessory2 |-> accessory2, accessory3 |-> accessory3]

\* Equipment::default(): every BoundedU8<0, MAX> defaults to 0
EquipmentDefault == EquipmentOf(0, 0, 0, 0, 0, 0, 0, 0)

\* The well-formed values of each type (the ranges of its BoundedU8 fields).
EquipmentType ==
    [helm : 0..HelmIndexMAX, weapon : 0..WeaponIndexMAX, armor : 0..ArmorIndexMAX,
     shoes : 0..ShoesIndexMAX, accessory0 : 0..Accessory0IndexMAX,
     accessory1 : 0..Accessory1IndexMAX, accessory2 : 0..Accessory2IndexMAX,
     accessory3 : 0..Accessory3IndexMAX]

\* Equipment::normalize with the armor alias off by one (x - 10 for x - 11)
Equipment_normalize_alias_off_by_one(self) ==
    LET res0 == EquipmentDefault
        res1 == CASE self.helm \in 0..2 -> [res0 EXCEPT !.helm = self.helm]
                  [] self.helm = 3 -> res0
        res2 == CASE self.weapon \in 0..10 -> [res1 EXCEPT !.weapon = self.weapon]
                  [] self.weapon \in 11..12 -> res1
                  [] self.weapon \in 13..15 -> [res1 EXCEPT !.armor = self.weapon - 12]
        res3 == CASE self.armor \in 0..9 -> [res2 EXCEPT !.armor = self.armor]
                  [] self.armor \in 10..11 -> res2
                  [] self.armor \in 12..15 -> [res2 EXCEPT !.shoes = self.armor - 10]
        res4 == CASE self.shoes \in 0..4 -> [res3 EXCEPT !.shoes = self.shoes]
                  [] self.shoes \in 5..6 -> res3
                  [] self.shoes = 7 -> [res3 EXCEPT !.accessory0 = 1]
        res5 == CASE self.accessory0 \in 0..2 -> [res4 EXCEPT !.accessory0 = self.accessory0]
                  [] self.accessory0 = 3 -> res4
        res6 == CASE self.accessory1 \in 0..2 -> [res5 EXCEPT !.accessory1 = self.accessory1]
                  [] self.accessory1 = 3 -> res5
    IN  [res6 EXCEPT !.accessory2 = self.accessory2,
                     !.accessory3 = self.accessory3]

\* Equipment::normalize with the armor match placed before the weapon match
Equipment_normalize_armor_first(self) ==
    LET res0 == EquipmentDefault
        res1 == CASE self.helm \in 0..2 -> [res0 EXCEPT !.helm = self.helm]
                  [] self.helm = 3 -> res0
        res2 == CASE self.armor \in 0..9 -> [res1 EXCEPT !.armor = self.armor]
                  [] self.armor \in 10..11 -> res1
                  [] self.armor \in 12..15 -> [res1 EXCEPT !.shoes = self.armor - 11]
        res3 == CASE self.weapon \in 0..10 -> [res2 EXCEPT !.weapon = self.weapon]
                  [] self.weapon \in 11..12 -> res2
                  [] self.weapon \in 13..15 -> [res2 EXCEPT !.armor = self.weapon - 12]
        res4 == CASE self.shoes \in 0..4 -> [res3 EXCEPT !.shoes = self.shoes]
                  [] self.shoes \in 5..6 -> res3
                  [] self.shoes = 7 -> [res3 EXCEPT !.accessory0 = 1]
        res5 == CASE self.accessory0 \in 0..2 -> [res4 EXCEPT !.accessory0 = self.accessory0]
                  [] self.accessory0 = 3 -> res4
        res6 == CASE self.accessory1 \in 0..2 -> [res5 EXCEPT !.accessory1 = self.accessory1]
                  [] self.accessory1 = 3 -> res5
    IN  [res6 EXCEPT !.accessory2 = self.accessory2,
                     !.accessory3 = self.accessory3]

\* Equipment::normalize.  The arms `4.. =>`, `16.. =>`, `8.. =>` are
\* unreachable_unchecked!(): no BoundedU8 of the field's type holds such a
\* value, so each match is written with its reachable arms.
\* Equipment::normalize with each alias written after the target
\* category's own rule: the alias always wins
Equipment_normalize_alias_wins(self) ==
    EquipmentOf(IF self.helm \in 0..2 THEN self.helm ELSE 0,
                IF self.weapon \in 0..10 THEN self.weapon ELSE 0,
                IF self.weapon \in 13..15 THEN self.weapon - 12
                ELSE IF self.armor \in 0..9 THEN self.armor ELSE 0,
                IF self.armor \in 12..15 THEN self.armor - 11
                ELSE IF self.shoes \in 0..4 THEN self.shoes ELSE 0,
                IF self.shoes = 7 THEN 1
                ELSE IF self.accessory0 \in 0..2 THEN self.accessory0 ELSE 0,
                IF self.accessory1 \in 0..2 THEN self.accessory1 ELSE 0,
                self.accessory2, self.accessory3)

Equipment_normalize(self) ==
    LET res0 == EquipmentDefault
        res1 == CASE self.helm \in 0..2 -> [res0 EXCEPT !.helm = self.helm]
                  [] self.helm = 3 -> res0
        res2 == CASE self.weapon \in 0..10 -> [res1 EXCEPT !.weapon = self.weapon]
                  [] self.weapon \in 11..12 -> res1
                  [] self.weapon \in 13..15 -> [res1 EXCEPT !.armor = self.weapon - 12]
        res3 == CASE self.armor \in 0..9 -> [res2 EXCEPT !.armor = self.armor]
                  [] self.armor \in 10..11 -> res2
                  [] self.armor \in 12..15 -> [res2 EXCEPT !.shoes = self.armor - 11]
        res4 == CASE self.shoes \in 0..4 -> [res3 EXCEPT !.shoes = self.shoes]
                  [] self.shoes \in 5..6 -> res3
                  [] self.shoes = 7 -> [res3 EXCEPT !.accessory0 = 1]
        res5 == CASE self.accessory0 \in 0..2 -> [res4 EXCEPT !.accessory0 = self.accessory0]
                  [] self.accessory0 = 3 -> res4
        res6 == CASE self.accessory1 \in 0..2 -> [res5 EXCEPT !.accessory1 = self.accessory1]
                  [] self.accessory1 = 3 -> res5
    IN  [res6 EXCEPT !.accessory2 = self.accessory2,
                     !.accessory3 = self.accessory3]

\* Savedata::normalize building the result on Savedata::default() fields
\* where it should copy them from self (the inventory is left empty)
Savedata_normalize_drops_inventory(self) ==
    [self EXCEPT !.equipment = Equipment_normalize(self.equipment),
                 !.inventory = <<>>]

\* Savedata::normalize
Savedata_normalize(self) ==
    [self EXCEPT !.equipment = Equipment_normalize(self.equipment),
                 !.inventory = self.inventory]

---------------------------------------------------------------------------
(* serialized.rs: SerializedBits, the bit vector of the field codec.       *)
(* A SerializedBits is modelled by as_bitslice(), the sequence of its      *)
(* first `len` bits (0 or 1); the bits of `inner` past `len` are never     *)
(* read before they are written.                                           *)

\* SerializedBits::CAPACITY
CAPACITY == 6 * 27

\* SerializedBits::new
SerializedBits_new == <<>>

Bit(flag) == IF flag THEN 1 ELSE 0

\* BitSlice::load_be::<u8>: the bits of the slice as a big-endian number
RECURSIVE load_be(_)
load_be(slice) ==
    IF slice = <<>> THEN 0
    ELSE 2 * load_be(SubSeq(slice, 1, Len(slice) - 1)) + slice[Len(slice)]

\* SerializedBits::push_bit
push_bit(bits, flag) == Append(bits, Bit(flag))

\* push_bits storing the least significant bit first (store_le)
push_bits_lsb_first(bits, n, value) ==
    bits \o [i \in 1..n |-> (value \div Pow2(i - 1)) % 2]

\* SerializedBits::push_bits: store_be keeps the n low bits of the value
push_bits(bits, n, value) ==
    bits \o [i \in 1..n |-> (value \div Pow2(n - i)) % 2]

RECURSIVE FromBytesLoop(_, _, _)
\* for &b in bytes[2..].iter().take(CAPACITY / 6) { this.push_bits(6, b.get()); }
FromBytesLoop(bytes_, i, this) ==
    IF i >= Len(bytes_) \/ i - 2 >= CAPACITY \div 6 THEN this
    ELSE FromBytesLoop(bytes_, i + 1, push_bits(this, 6, bytes_[i + 1]))

\* from_bytes filling the missing bits with 0 instead of 1
SerializedBits_from_bytes_zero_fill(bytes_) ==
    LET this == IF Len(bytes_) > 2 THEN FromBytesLoop(bytes_, 2, SerializedBits_new)
                ELSE SerializedBits_new
    IN  this \o [i \in 1..(CAPACITY - Len(this)) |-> 0]

\* from_bytes without take(CAPACITY / 6): every payload symbol is pushed
SerializedBits_from_bytes_no_take(bytes_) ==
    LET this == IF Len(bytes_) > 2
                THEN [k \in 1..(6 * (Len(bytes_) - 2)) |->
                         (bytes_[3 + ((k - 1) \div 6)] \div Pow2(5 - ((k - 1) % 6))) % 2]
                ELSE SerializedBits_new
    IN  IF Len(this) >= CAPACITY THEN this
        ELSE this \o [i \in 1..(CAPACITY - Len(this)) |-> 1]

\* SerializedBits::from_bytes
SerializedBits_from_bytes(bytes_) ==
    LET this == IF Len(bytes_) > 2 THEN FromBytesLoop(bytes_, 2, SerializedBits_new)
                ELSE SerializedBits_new
    IN  this \o [i \in 1..(CAPACITY - Len(this)) |-> 1]

\* to_bytes storing the two checksum symbols in the wrong order
SerializedBits_to_bytes_swapped(self) ==
    LET len == ((Len(self) + 6 - 1) \div 6) * 6
        padded == self \o [i \in 1..(len - Len(self)) |-> 0]
        inner == <<0, 0>> \o
                 [k \in 1..(len \div 6) |-> load_be(SubSeq(padded, 6 * (k - 1) + 1, 6 * k))]
        checksum == checksum_calculated(inner)
    IN  [inner EXCEPT ![1] = checksum.sum_xor, ![2] = checksum.sum_add]

\* to_bytes rounding the length down to a multiple of 6: the last partial
\* group is dropped instead of padded
SerializedBits_to_bytes_truncating(self) ==
    LET len == (Len(self) \div 6) * 6
        inner == <<0, 0>> \o
                 [k \in 1..(len \div 6) |-> load_be(SubSeq(self, 6 * (k - 1) + 1, 6 * k))]
        checksum == checksum_calculated(inner)
    IN  [inner EXCEPT ![1] = checksum.sum_add, ![2] = checksum.sum_xor]

\* SerializedBits::to_bytes
SerializedBits_to_bytes(self) ==
    LET len == ((Len(self) + 6 - 1) \div 6) * 6
        padded == self \o [i \in 1..(len - Len(self)) |-> 0]
        inner == <<0, 0>> \o
                 [k \in 1..(len \div 6) |-> load_be(SubSeq(padded, 6 * (k - 1) + 1, 6 * k))]
        checksum == checksum_calculated(inner)
    IN  [inner EXCEPT ![1] = checksum.sum_add, ![2] = checksum.sum_xor]

\* deserialize_bits: <<value, remain>>
deserialize_bits(bits, n) ==
    <<load_be(SubSeq(bits, 1, n)), SubSeq(bits, n + 1, Len(bits))>>

---------------------------------------------------------------------------
(* serialized.rs: packing the fields                                       *)

serialize_spells(bits, spells) ==
    LET b1 == push_bit(bits, spells.houhi)
        b2 == push_bit(b1, spells.dadadidi)
        b3 == push_bit(b2, spells.fuyuu)
        b4 == push_bit(b3, spells.mankintan)
        b5 == push_bit(b4, spells.hien)
        b6 == push_bit(b5, spells.inazuma)
        b7 == push_bit(b6, spells.rokkaku)
    IN  push_bit(b7, spells.kintan)

serialize_events(bits, events) ==
    LET b1 == push_bit(bits, events.hohoemi)
        b2 == push_bit(b1, events.dragon)
        b3 == push_bit(b2, events.sarukani)
        b4 == push_bit(b3, events.murata)
        b5 == push_bit(b4, events.netaro)
        b6 == push_bit(b5, events.urashima)
        b7 == push_bit(b6, events.kintaro)
    IN  push_bit(b7, events.hanasaka)

serialize_treasures(bits, treasures) ==
    LET b1 == push_bit(bits, treasures.swallow)
        b2 == push_bit(b1, treasures.hourai)
        b3 == push_bit(b2, treasures.hotoke)
        b4 == push_bit(b3, treasures.fur)
    IN  push_bit(b4, treasures.dragon)

serialize_minions(bits, minions) ==
    LET b1 == push_bit(bits, minions.monkey)
        b2 == push_bit(b1, minions.pheasant)
    IN  push_bit(b2, minions.dog)

serialize_bookmarks0(bits, bookmarks) ==
    LET b1 == push_bit(bits, bookmarks.taketori)
        b2 == push_bit(b1, bookmarks.sarukani)
        b3 == push_bit(b2, bookmarks.kibou)
        b4 == push_bit(b3, bookmarks.netaro)
        b5 == push_bit(b4, bookmarks.urashima)
        b6 == push_bit(b5, bookmarks.kintaro)
        b7 == push_bit(b6, bookmarks.hanasaka)
    IN  push_bit(b7, bookmarks.tabidachi)

\* serialize_bookmarks1 pushing hohoemi before hien
serialize_bookmarks1_swapped(bits, bookmarks) ==
    LET b1 == push_bit(bits, bookmarks.hohoemi)
    IN  push_bit(b1, bookmarks.hien)

serialize_bookmarks1(bits, bookmarks) ==
    LET b1 == push_bit(bits, bookmarks.hien)
    IN  push_bit(b1, bookmarks.hohoemi)

serialize_equipment(bits, equipment) ==
    LET b1 == push_bits(bits, 2, equipment.helm)
        b2 == push_bits(b1, 4, equipment.weapon)
        b3 == push_bits(b2, 4, equipment.armor)
        b4 == push_bits(b3, 3, equipment.shoes)
        b5 == push_bits(b4, 2, equipment.accessory0)
        b6 == push_bits(b5, 2, equipment.accessory1)
        b7 == push_bits(b6, 1, equipment.accessory2)
    IN  push_bits(b7, 1, equipment.accessory3)

RECURSIVE SerializeInventoryLoop(_, _, _)
\* for item in inventory { bits.push_bits(6, item.get()); }
SerializeInventoryLoop(bits, inventory, i) ==
    IF i >= Len(inventory) THEN bits
    ELSE SerializeInventoryLoop(push_bits(bits, 6, inventory[i + 1]), inventory, i + 1)

\* ArrayVec::is_full
is_full(inventory) == Len(inventory) = InventoryCAP

\* serialize_inventory pushing the terminator also after eight items
serialize_inventory_always_terminated(bits, inventory) ==
    push_bits(SerializeInventoryLoop(bits, inventory, 0), 6, 0)

serialize_inventory(bits, inventory) ==
    LET b1 == SerializeInventoryLoop(bits, inventory, 0)
    IN  IF ~is_full(inventory) THEN push_bits(b1, 6, 0) ELSE b1

\* The bit vector from_savedata hands to to_bytes.
from_savedata_bits(s) ==
    LET xp_lo == s.xp % 256
        xp_hi == (s.xp \div 256) % 256
        purse_lo == s.purse % 256
        purse_hi == (s.purse \div 256) % 256
        b1 == push_bits(SerializedBits_new, 8, s.age_timer_hi)
        b2 == push_bits(b1, 8, purse_hi)
        b3 == push_bits(b2, 8, s.age)
        b4 == push_bits(b3, 8, purse_lo)
        b5 == push_bits(b4, 8, xp_lo)
        b6 == push_bits(b5, 6, s.deposit)
        b7 == push_bits(b6, 8, xp_hi)
        b8 == serialize_spells(b7, s.spells)
        b9 == serialize_treasures(b8, s.treasures)
        b10 == push_bits(b9, 4, s.respawn)
        b11 == serialize_bookmarks1(b10, s.bookmarks)
        b12 == serialize_minions(b11, s.minions)
        b13 == serialize_bookmarks0(b12, s.bookmarks)
        b14 == serialize_events(b13, s.events)
        b15 == serialize_equipment(b14, s.equipment)
    IN  serialize_inventory(b15, s.inventory)

\* SerializedBytes::from_savedata
from_savedata(s) == SerializedBits_to_bytes(from_savedata_bits(s))

---------------------------------------------------------------------------
(* serialized.rs: unpacking the fields                                     *)

\* u8::view_bits::<Lsb0>()[k]
BitLsb0(value, k) == (value \div Pow2(k)) % 2 = 1

unpack_spells(spells) ==
    [kintan |-> BitLsb0(spells, 0), rokkaku |-> BitLsb0(spells, 1),
     inazuma |-> BitLsb0(spells, 2), hien |-> BitLsb0(spells, 3),
     mankintan |-> BitLsb0(spells, 4), fuyuu |-> BitLsb0(spells, 5),
     dadadidi |-> BitLsb0(spells, 6), houhi |-> BitLsb0(spells, 7)]

unpack_events(events) ==
    [hanasaka |-> BitLsb0(events, 0), kintaro |-> BitLsb0(events, 1),
     urashima |-> BitLsb0(events, 2), netaro |-> BitLsb0(events, 3),
     murata |-> BitLsb0(events, 4), sarukani |-> BitLsb0(events, 5),
     dragon |-> BitLsb0(events, 6), hohoemi |-> BitLsb0(events, 7)]

unpack_treasures(treasures) ==
    [dragon |-> BitLsb0(treasures, 0), fur |-> BitLsb0(treasures, 1),
     hotoke |-> BitLsb0(treasures, 2), hourai |-> BitLsb0(treasures, 3),
     swallow |-> BitLsb0(treasures, 4)]

unpack_minions(minions) ==
    [dog |-> BitLsb0(minions, 0), pheasant |-> BitLsb0(minions, 1),
     monkey |-> BitLsb0(minions, 2)]

\* unpack_bookmarks([bookmarks0, bookmarks1]): bits 0..7 of the view are
\* those of bookmarks0, bits 8 and 9 are bits 0 and 1 of bookmarks1
unpack_bookmarks(bookmarks0, bookmarks1) ==
    [tabidachi |-> BitLsb0(bookmarks0, 0), hanasaka |-> BitLsb0(bookmarks0, 1),
     kintaro |-> BitLsb0(bookmarks0, 2), urashima |-> BitLsb0(bookmarks0, 3),
     netaro |-> BitLsb0(bookmarks0, 4), kibou |-> BitLsb0(bookmarks0, 5),
     sarukani |-> BitLsb0(bookmarks0, 6), taketori |-> BitLsb0(bookmarks0, 7),
     hohoemi |-> BitLsb0(bookmarks1, 0), hien |-> BitLsb0(bookmarks1, 1)]

\* deserialize_equipment: <<equipment, remain>>
deserialize_equipment(bits) ==
    LET helm == deserialize_bits(bits, 2)
        weapon == deserialize_bits(helm[2], 4)
        armor == deserialize_bits(weapon[2], 4)
        shoes == deserialize_bits(armor[2], 3)
        accessory0 == deserialize_bits(shoes[2], 2)
        accessory1 == deserialize_bits(accessory0[2], 2)
        accessory2 == deserialize_bits(accessory1[2], 1)
        accessory3 == deserialize_bits(accessory2[2], 1)
    IN  <<EquipmentOf(helm[1], weapon[1], armor[1], shoes[1], accessory0[1],
                      accessory1[1], accessory2[1], accessory3[1]),
          accessory3[2]>>

\* deserialize_inventory without the break at an item 0: all eight groups
\* are pushed
deserialize_inventory_no_break(bits) ==
    <<[k \in 1..8 |-> load_be(SubSeq(bits, 6 * k - 5, 6 * k))],
      SubSeq(bits, 49, Len(bits))>>

RECURSIVE DeserializeInventoryLoopContinue(_, _, _)
\* the loop of deserialize_inventory with continue for break
DeserializeInventoryLoopContinue(bits, inventory, k) ==
    IF k >= 8 THEN <<inventory, bits>>
    ELSE LET r == deserialize_bits(bits, 6)
         IN  DeserializeInventoryLoopContinue(r[2],
                 IF r[1] = 0 THEN inventory ELSE Append(inventory, r[1]), k + 1)

\* deserialize_inventory skipping an item 0 instead of stopping at it
deserialize_inventory_continue(bits) == DeserializeInventoryLoopContinue(bits, <<>>, 0)

RECURSIVE DeserializeInventoryLoop(_, _, _)
\* for _ in 0..8 { (item, bits) = deserialize_bits(bits, 6);
\*                 if item == 0 { break; } inventory.push(item); }
DeserializeInventoryLoop(bits, inventory, k) ==
    IF k >= 8 THEN <<inventory, bits>>
    ELSE LET r == deserialize_bits(bits, 6)
         IN  IF r[1] = 0 THEN <<inventory, r[2]>>
             ELSE DeserializeInventoryLoop(r[2], Append(inventory, r[1]), k + 1)

\* deserialize_inventory: <<inventory, remain>>
deserialize_inventory(bits) == DeserializeInventoryLoop(bits, <<>>, 0)

\* The fields to_savedata reads from the bit vector of a buffer.
to_savedata_fields(bits) ==
    LET age_timer_hi == deserialize_bits(bits, 8)
        purse_hi == deserialize_bits(age_timer_hi[2], 8)
        age == deserialize_bits(purse_hi[2], 8)
        purse_lo == deserialize_bits(age[2], 8)
        xp_lo == deserialize_bits(purse_lo[2], 8)
        deposit == deserialize_bits(xp_lo[2], 6)
        xp_hi == deserialize_bits(deposit[2], 8)
        spells == deserialize_bits(xp_hi[2], 8)
        treasures == deserialize_bits(spells[2], 5)
        respawn == deserialize_bits(treasures[2], 4)
        bookmarks1 == deserialize_bits(respawn[2], 2)
        minions == deserialize_bits(bookmarks1[2], 3)
        bookmarks0 == deserialize_bits(minions[2], 8)
        events == deserialize_bits(bookmarks0[2], 8)
        equipment == deserialize_equipment(events[2])
        inventory == deserialize_inventory(equipment[2])
    IN  [xp |-> xp_lo[1] + 256 * xp_hi[1],
         purse |-> purse_lo[1] + 256 * purse_hi[1],
         deposit |-> deposit[1],
         age |-> age[1],
         age_timer_hi |-> age_timer_hi[1],
         spells |-> unpack_spells(spells[1]),
         events |-> unpack_events(events[1]),
         treasures |-> unpack_treasures(treasures[1]),
         minions |-> unpack_minions(minions[1]),
         bookmarks |-> unpack_bookmarks(bookmarks0[1], bookmarks1[1]),
         respawn |-> respawn[1],
         equipment |-> equipment[1],
         inventory |-> inventory[1]]

\* to_savedata without the checksum test
to_savedata_unchecked(b) == Some(to_savedata_fields(SerializedBits_from_bytes(b)))

\* SerializedBytes::to_savedata
to_savedata(b) ==
    IF ~checksum_is_ok(b) THEN None
    ELSE Some(to_savedata_fields(SerializedBits_from_bytes(b)))

---------------------------------------------------------------------------
(* password.rs / serialized.rs: the checked constructors                   *)

\* Password::new without the length test (as new_unchecked)
Password_new_unchecked(chars) == Some(chars)

\* Password::new
Password_new(chars) ==
    IF Len(chars) >= MIN_LEN /\ Len(chars) <= MAX_LEN THEN Some(chars) ELSE None

\* SerializedBytes::new
SerializedBytes_new(buf) ==
    IF Len(buf) >= MIN_LEN /\ Len(buf) <= MAX_LEN THEN Some(buf) ELSE None

---------------------------------------------------------------------------
(* password.rs: the alphabet, parsing and display.  A char is modelled by  *)
(* its Unicode code point, a PasswordChar by its discriminant.             *)

\* PasswordChar::from_char computed from the code point instead of matched
PasswordChar_from_char_by_code(c) ==
    IF c \in 12353..12435 THEN Some((c - 12353) % 64) ELSE None

\* PasswordChar::from_char
PasswordChar_from_char(c) ==
    CASE c = 12354 -> Some(0) [] c = 12356 -> Some(1) [] c = 12358 -> Some(2) [] c = 12360 -> Some(3)
      [] c = 12362 -> Some(4) [] c = 12363 -> Some(5) [] c = 12365 -> Some(6) [] c = 12367 -> Some(7)
      [] c = 12369 -> Some(8) [] c = 12371 -> Some(9) [] c = 12373 -> Some(10) [] c = 12375 -> Some(11)
      [] c = 12377 -> Some(12) [] c = 12379 -> Some(13) [] c = 12381 -> Some(14) [] c = 12383 -> Some(15)
      [] c = 12385 -> Some(16) [] c = 12388 -> Some(17) [] c = 12390 -> Some(18) [] c = 12392 -> Some(19)
      [] c = 12394 -> Some(20) [] c = 12395 -> Some(21) [] c = 12396 -> Some(22) [] c = 12397 -> Some(23)
      [] c = 12398 -> Some(24) [] c = 12399 -> Some(25) [] c = 12402 -> Some(26) [] c = 12405 -> Some(27)
      [] c = 12408 -> Some(28) [] c = 12411 -> Some(29) [] c = 12414 -> Some(30) [] c = 12415 -> Some(31)
      [] c = 12416 -> Some(32) [] c = 12417 -> Some(33) [] c = 12418 -> Some(34) [] c = 12420 -> Some(35)
      [] c = 12422 -> Some(36) [] c = 12424 -> Some(37) [] c = 12425 -> Some(38) [] c = 12426 -> Some(39)
      [] c = 12427 -> Some(40) [] c = 12428 -> Some(41) [] c = 12429 -> Some(42) [] c = 12431 -> Some(43)
      [] c = 12364 -> Some(44) [] c = 12366 -> Some(45) [] c = 12368 -> Some(46) [] c = 12370 -> Some(47)
      [] c = 12372 -> Some(48) [] c = 12374 -> Some(49) [] c = 12376 -> Some(50) [] c = 12378 -> Some(51)
      [] c = 12380 -> Some(52) [] c = 12382 -> Some(53) [] c = 12400 -> Some(54) [] c = 12403 -> Some(55)
      [] c = 12406 -> Some(56) [] c = 12409 -> Some(57) [] c = 12412 -> Some(58) [] c = 12401 -> Some(59)
      [] c = 12404 -> Some(60) [] c = 12407 -> Some(61) [] c = 12410 -> Some(62) [] c = 12413 -> Some(63)
      [] OTHER -> None

\* PasswordChar::to_char
PasswordChar_to_char(self) ==
    CASE self = 0 -> 12354 [] self = 1 -> 12356 [] self = 2 -> 12358 [] self = 3 -> 12360
      [] self = 4 -> 12362 [] self = 5 -> 12363 [] self = 6 -> 12365 [] self = 7 -> 12367
      [] self = 8 -> 12369 [] self = 9 -> 12371 [] self = 10 -> 12373 [] self = 11 -> 12375
      [] self = 12 -> 12377 [] self = 13 -> 12379 [] self = 14 -> 12381 [] self = 15 -> 12383
      [] self = 16 -> 12385 [] self = 17 -> 12388 [] self = 18 -> 12390 [] self = 19 -> 12392
      [] self = 20 -> 12394 [] self = 21 -> 12395 [] self = 22 -> 12396 [] self = 23 -> 12397
      [] self = 24 -> 12398 [] self = 25 -> 12399 [] self = 26 -> 12402 [] self = 27 -> 12405
      [] self = 28 -> 12408 [] self = 29 -> 12411 [] self = 30 -> 12414 [] self = 31 -> 12415
      [] self = 32 -> 12416 [] self = 33 -> 12417 [] self = 34 -> 12418 [] self = 35 -> 12420
      [] self = 36 -> 12422 [] self = 37 -> 12424 [] self = 38 -> 12425 [] self = 39 -> 12426
      [] self = 40 -> 12427 [] self = 41 -> 12428 [] self = 42 -> 12429 [] self = 43 -> 12431
      [] self = 44 -> 12364 [] self = 45 -> 12366 [] self = 46 -> 12368 [] self = 47 -> 12370
      [] self = 48 -> 12372 [] self = 49 -> 12374 [] self = 50 -> 12376 [] self = 51 -> 12378
      [] self = 52 -> 12380 [] self = 53 -> 12382 [] self = 54 -> 12400 [] self = 55 -> 12403
      [] self = 56 -> 12406 [] self = 57 -> 12409 [] self = 58 -> 12412 [] self = 59 -> 12401
      [] self = 60 -> 12404 [] self = 61 -> 12407 [] self = 62 -> 12410 [] self = 63 -> 12413

\* PasswordChar::all
PasswordChar_all ==
    <<0, 1, 2, 3, 4, 5, 6, 7, 8, 9, 10, 11, 12, 13, 14, 15,
       16, 17, 18, 19, 20, 21, 22, 23, 24, 25, 26, 27, 28, 29, 30, 31,
       32, 33, 34, 35, 36, 37, 38, 39, 40, 41, 42, 43, 44, 45, 46, 47,
       48, 49, 50, 51, 52, 53, 54, 55, 56, 57, 58, 59, 60, 61, 62, 63>>

\* PasswordChar::to_inner
to_inner(self) == self

\* Password::SPECIAL_AUDIO
SPECIAL_AUDIO == <<12, 57, 18, 24, 6, 37, 7, 44, 6, 6, 15, 1, 20>>

\* Password::SPECIAL_ENEMY
SPECIAL_ENEMY == <<12, 57, 18, 24, 18, 6, 44, 31, 15, 1, 20>>

\* <[T]>::starts_with
starts_with(self, needle) ==
    LET n == Len(needle)
    IN  Len(self) >= n /\ SubSeq(self, 1, n) = needle

\* Password::is_special_audio
is_special_audio(self) == starts_with(SPECIAL_AUDIO, self)

\* Password::is_special_enemy
is_special_enemy(self) == starts_with(SPECIAL_ENEMY, self)

\* Password::is_special testing equality with the whole constants
is_special_full_match(self) == self = SPECIAL_AUDIO \/ self = SPECIAL_ENEMY

\* Password::is_special
is_special(self) == is_special_audio(self) \/ is_special_enemy(self)

\* Result<Password, PasswordParseError>
Ok(v) == [ok |-> TRUE, value |-> v]
Err(e) == [ok |-> FALSE, value |-> e]
InvalidLength == [kind |-> "InvalidLength"]
InvalidChar(pos, ch) == [kind |-> "InvalidChar", pos |-> pos, ch |-> ch]

RECURSIVE ParseLoop(_, _, _)
\* Password::parse: the loop over s.chars().enumerate() from index i
\* (0-based) with the symbols pushed so far, then the emptiness test
ParseLoop(s, i, inner) ==
    IF i >= Len(s)
    THEN IF inner = <<>> THEN Err(InvalidLength) ELSE Ok(inner)
    ELSE LET c == s[i + 1]
             pc == PasswordChar_from_char(c)
         IN  IF ~IsSome(pc) THEN Err(InvalidChar(i, c))
             ELSE IF Len(inner) >= MAX_LEN THEN Err(InvalidLength)
             ELSE ParseLoop(s, i + 1, Append(inner, Unwrap(pc)))

\* Password::parse accepting any character count
Password_parse_unbounded(s) ==
    IF \E i \in 1..Len(s) : ~IsSome(PasswordChar_from_char(s[i]))
    THEN ParseLoop(s, 0, <<>>)
    ELSE Ok([i \in 1..Len(s) |-> Unwrap(PasswordChar_from_char(s[i]))])

\* Password::parse testing the character count before the characters
Password_parse_length_first(s) ==
    IF Len(s) > MAX_LEN THEN Err(InvalidLength) ELSE ParseLoop(s, 0, <<>>)

\* Password::parse
Password_parse(s) == ParseLoop(s, 0, <<>>)

\* PasswordDisplay::fmt
display(self) == [i \in 1..Len(self) |-> PasswordChar_to_char(self[i])]

\* the lengths of the groups of display_pretty
LENS == <<5, 7, 5, 7, 7, 7>>

RECURSIVE DisplayPrettyLoop(_, _, _)
\* PasswordDisplayPretty::fmt: the loop over LENS from group k with the
\* symbols pcs still to write and the text f written so far
DisplayPrettyLoop(pcs, k, f) ==
    IF k > Len(LENS) THEN f
    ELSE LET len == IF LENS[k] < Len(pcs) THEN LENS[k] ELSE Len(pcs)
             chunk == SubSeq(pcs, 1, len)
             rest == SubSeq(pcs, len + 1, Len(pcs))
             written == f \o [i \in 1..len |-> PasswordChar_to_char(chunk[i])]
         IN  DisplayPrettyLoop(rest, k + 1,
                 IF rest # <<>> THEN Append(written, 32) ELSE written)

\* PasswordDisplayPretty::fmt
display_pretty(self) == DisplayPrettyLoop(self, 1, <<>>)

---------------------------------------------------------------------------
(* examples/load.rs: what `load <password>` prints for a parsed password   *)

load_main(pw) ==
    LET bytes_ == from_password(pw)
        loaded == to_savedata(bytes_)
    IN  IF IsSome(loaded)
        THEN [kind |-> "savedata", savedata |-> loaded,
              embed |-> None, calculated |-> None]
        ELSE LET embed == checksum_embed(bytes_)
                 calculated == checksum_calculated(bytes_)
             IN  IF Panic \in {embed.sum_add, embed.sum_xor,
                               calculated.sum_add, calculated.sum_xor}
                 THEN [kind |-> "panic", savedata |-> None,
                       embed |-> None, calculated |-> None]
                 ELSE [kind |-> "checksum mismatch", savedata |-> None,
                       embed |-> Some(embed), calculated |-> Some(calculated)]

---------------------------------------------------------------------------
(* The inputs of a run: the slices and game states a caller hands to the   *)
(* library.                                                                *)

\* number of symbol patterns of the generated passwords and buffers
NumPatterns == 3
\* number of generated game states per inventory length
NumSeeds == 4

\* symbol i (0-based) of pattern j: pattern 0 is all 0, pattern 1 all 63
Pat(j, i) == (63 * j + 11 * i * (j \div 2)) % 64

\* passwords of the repository's tests
PwFu == <<27>>
PwOninobaka == <<4, 21, 24, 54, 5>>
PwAaaa == <<0, 0, 0, 0>>
PwLen13 == <<1, 1, 1, 1, 1, 1, 1, 1, 1, 1, 0, 3, 12>>
PwLen38 == [i \in 1..38 |-> IF i <= 35 THEN 1 ELSE <<3, 1, 15>>[i - 35]]
PwSpecialEnemy == <<12, 57, 18, 24, 18, 6, 44, 31, 15, 1, 20>>

PasswordInputs ==
    {<<c>> : c \in Symbol}
    \cup {PwFu, PwOninobaka, PwAaaa, PwLen13, PwLen38, PwSpecialEnemy}
    \cup {[i \in 1..n |-> Pat(j, i - 1)] : n \in MIN_LEN..MAX_LEN, j \in 0..(NumPatterns - 1)}
    \cup {<<>>, [i \in 1..(MAX_LEN + 1) |-> 0]}

\* sum and xor of the symbols of a sequence, as plain arithmetic
RECURSIVE SumOf(_)
SumOf(q) == IF q = <<>> THEN 0 ELSE q[1] + SumOf(Tail(q))
RECURSIVE XorOf(_)
XorOf(q) == IF q = <<>> THEN 0 ELSE Xor(q[1], XorOf(Tail(q)))

\* A buffer of n symbols with payload pattern j; its header is the pair that
\* matches the payload when h = 0, and is off in one symbol when h = 1, 2.
BufferInput(n, j, h) ==
    LET payload == [i \in 1..(n - 2) |-> Pat(j, i + 1)]
        add0 == IF n <= 2 THEN 63 ELSE SumOf(payload) % 64
        xor0 == IF n <= 2 THEN 63 ELSE XorOf(payload)
        add == IF h = 1 THEN (add0 + 1) % 64 ELSE add0
        xor == IF h = 2 THEN Xor(xor0, 1) ELSE xor0
    IN  SubSeq(<<add, xor>>, 1, IF n = 1 THEN 1 ELSE 2) \o payload

BytesInputs ==
    {BufferInput(n, j, h) : n \in MIN_LEN..MAX_LEN, j \in 0..(NumPatterns - 1), h \in 0..2}
    \cup {<<>>, [i \in 1..(MAX_LEN + 1) |-> 0]}

\* the characters of the texts: the hiragana block, ' ', '?', 'a', 'ア'
CharInputs == 12352..12447 \cup {32, 63, 97, 12450}

\* the symbol sequences whose renderings are parsed: the test passwords,
\* every prefix of the two special constants, such a prefix with its last
\* symbol replaced by 'あ' or followed by 'あ'
SymbolTexts ==
    {PwOninobaka, PwAaaa, PwLen13, PwLen38}
    \cup UNION {{SubSeq(c, 1, n) : n \in 1..Len(c)} : c \in {SPECIAL_AUDIO, SPECIAL_ENEMY}}
    \cup UNION {{Append(SubSeq(c, 1, n), 0) : n \in 0..Len(c)} :
                  c \in {SPECIAL_AUDIO, SPECIAL_ENEMY}}

\* The texts handed to Password::parse: every single character, the
\* renderings above, "あいう?えお", a grouped rendering, and texts of 0 and
\* 38..40 characters with and without a '?' at their end, and texts of 40
\* and 41 characters with a '?' or two at given places.
TextInputs ==
    {<<c>> : c \in CharInputs}
    \cup {display(q) : q \in SymbolTexts}
    \cup {<<12354, 12356, 12358, 63, 12360, 12362>>, display_pretty(PwLen13)}
    \cup {[i \in 1..n |-> 12354] : n \in {0, MAX_LEN, MAX_LEN + 1, MAX_LEN + 2}}
    \cup {[i \in 1..n |-> IF i = n THEN 63 ELSE 12354] :
             n \in {MAX_LEN, MAX_LEN + 1, MAX_LEN + 2}}
    \cup {[i \in 1..n |-> IF i \in {p, q} THEN 63 ELSE 12354] :
             n \in {MAX_LEN + 2, MAX_LEN + 3},
             p \in {1, 20, MAX_LEN, MAX_LEN + 1, MAX_LEN + 2},
             q \in {MAX_LEN + 1, MAX_LEN + 2, MAX_LEN + 3}}

\* field value of seed k: seed 0 gives 0, seed 1 the maximum, others a mix
Gen(k, salt, max) ==
    IF k = 0 THEN 0 ELSE IF k = 1 THEN max ELSE (k * salt + salt \div 3) % (max + 1)

\* A well-formed game state of seed k holding m items.
SavedataInput(k, m) ==
    [xp |-> Gen(k, 40503, 65535),
     purse |-> Gen(k, 25717, 65535),
     deposit |-> Gen(k, 37, DepositMAX),
     age |-> Gen(k, 101, 255),
     age_timer_hi |-> Gen(k, 59, 255),
     spells |-> unpack_spells(Gen(k, 77, 255)),
     events |-> unpack_events(Gen(k, 143, 255)),
     treasures |-> unpack_treasures(Gen(k, 21, 31)),
     minions |-> unpack_minions(Gen(k, 5, 7)),
     bookmarks |-> unpack_bookmarks(Gen(k, 181, 255), Gen(k, 3, 3)),
     respawn |-> Gen(k, 7, RespawnIdMAX),
     equipment |-> EquipmentOf(Gen(k, 3, HelmIndexMAX), Gen(k, 7, WeaponIndexMAX),
                               Gen(k, 11, ArmorIndexMAX), Gen(k, 3, ShoesIndexMAX),
                               Gen(k, 1, Accessory0IndexMAX), Gen(k, 2, Accessory1IndexMAX),
                               Gen(k, 1, Accessory2IndexMAX), Gen(k, 1, Accessory3IndexMAX)),
     inventory |-> [i \in 1..m |-> ItemIdMIN + Gen(k + i + 1, 29, ItemIdMAX - ItemIdMIN)]]

\* The game states with one bit of one field set and everything else zero.
FieldInputs ==
    LET z == SavedataInput(0, 0)
    IN  {[z EXCEPT !.xp = Pow2(k)] : k \in 0..15}
        \cup {[z EXCEPT !.purse = Pow2(k)] : k \in 0..15}
        \cup {[z EXCEPT !.deposit = Pow2(k)] : k \in 0..5}
        \cup {[z EXCEPT !.age = Pow2(k)] : k \in 0..7}
        \cup {[z EXCEPT !.age_timer_hi = Pow2(k)] : k \in 0..7}
        \cup {[z EXCEPT !.spells = unpack_spells(Pow2(k))] : k \in 0..7}
        \cup {[z EXCEPT !.events = unpack_events(Pow2(k))] : k \in 0..7}
        \cup {[z EXCEPT !.treasures = unpack_treasures(Pow2(k))] : k \in 0..4}
        \cup {[z EXCEPT !.minions = unpack_minions(Pow2(k))] : k \in 0..2}
        \cup {[z EXCEPT !.bookmarks = unpack_bookmarks(Pow2(k), 0)] : k \in 0..7}
        \cup {[z EXCEPT !.bookmarks = unpack_bookmarks(0, Pow2(k))] : k \in 0..1}
        \cup {[z EXCEPT !.respawn = Pow2(k)] : k \in 0..3}
        \cup {[z EXCEPT !.equipment.helm = Pow2(k)] : k \in 0..1}
        \cup {[z EXCEPT !.equipment.weapon = Pow2(k)] : k \in 0..3}
        \cup {[z EXCEPT !.equipment.armor = Pow2(k)] : k \in 0..3}
        \cup {[z EXCEPT !.equipment.shoes = Pow2(k)] : k \in 0..2}
        \cup {[z EXCEPT !.equipment.accessory0 = Pow2(k)] : k \in 0..1}
        \cup {[z EXCEPT !.equipment.accessory1 = Pow2(k)] : k \in 0..1}
        \cup {[z EXCEPT !.equipment.accessory2 = 1], [z EXCEPT !.equipment.accessory3 = 1]}

SavedataInputs ==
    {SavedataInput(k, m) : k \in 0..(NumSeeds - 1), m \in 0..InventoryCAP}
    \cup FieldInputs

---------------------------------------------------------------------------
(* The caller: a run starts by building one password, buffer or game       *)
(* state (as each example program does) and then runs the library's        *)
(* operations on what it holds.                                            *)

\* an operation other than a constructor, parse or display: the caller's
\* slice, text and parse error of an earlier call are gone
FrontEndIdle ==
    /\ arg' = None
    /\ text' = None
    /\ error' = None

Init ==
    /\ password = None
    /\ bytes = None
    /\ savedata = None
    /\ savedata_norm = None
    /\ report = None
    /\ arg = None
    /\ text = None
    /\ error = None
    /\ last = "init"

\* Password::new(&chars)
NewPassword ==
    /\ last = "init"
    /\ \E chars \in PasswordInputs :
        /\ password' = Password_new(chars)
        /\ bytes' = None
        /\ savedata' = None
        /\ savedata_norm' = None
        /\ report' = None
        /\ arg' = Some(chars)
        /\ text' = None
        /\ error' = None
        /\ last' = "Password::new"

\* SerializedBytes::new(&buf)
NewBytes ==
    /\ last = "init"
    /\ \E buf \in BytesInputs :
        /\ bytes' = SerializedBytes_new(buf)
        /\ password' = None
        /\ savedata' = None
        /\ savedata_norm' = None
        /\ report' = None
        /\ arg' = Some(buf)
        /\ text' = None
        /\ error' = None
        /\ last' = "SerializedBytes::new"

\* Savedata { .. }
NewSavedata ==
    /\ last = "init"
    /\ \E s \in SavedataInputs :
        /\ savedata' = Some(s)
        /\ password' = None
        /\ bytes' = None
        /\ savedata_norm' = None
        /\ report' = None
        /\ FrontEndIdle
        /\ last' = "Savedata"

\* password = Password::parse(&text)
Parse ==
    /\ last = "init"
    /\ \E s \in TextInputs :
        LET r == Password_parse(s)
        IN  /\ text' = Some(s)
            /\ password' = IF r.ok THEN Some(r.value) ELSE None
            /\ error' = IF r.ok THEN None ELSE Some(r.value)
            /\ arg' = None
            /\ bytes' = None
            /\ savedata' = None
            /\ savedata_norm' = None
            /\ report' = None
            /\ last' = "Password::parse"

\* text = password.display().to_string()
Display ==
    /\ IsSome(password)
    /\ text' = Some(display(Unwrap(password)))
    /\ arg' = None
    /\ error' = None
    /\ last' = "display"
    /\ UNCHANGED <<password, bytes, savedata, savedata_norm, report>>

\* bytes = SerializedBytes::from_password(&password)
FromPassword ==
    /\ IsSome(password)
    /\ bytes' = Some(from_password(Unwrap(password)))
    /\ savedata' = None
    /\ savedata_norm' = None
    /\ report' = None
    /\ FrontEndIdle
    /\ last' = "from_password"
    /\ UNCHANGED password

\* password = bytes.to_password()
ToPassword ==
    /\ IsSome(bytes)
    /\ password' = Some(to_password(Unwrap(bytes)))
    /\ report' = None
    /\ FrontEndIdle
    /\ last' = "to_password"
    /\ UNCHANGED <<bytes, savedata, savedata_norm>>

\* savedata = bytes.to_savedata()
ToSavedata ==
    /\ IsSome(bytes)
    /\ savedata' = to_savedata(Unwrap(bytes))
    /\ savedata_norm' = None
    /\ report' = None
    /\ FrontEndIdle
    /\ last' = "to_savedata"
    /\ UNCHANGED <<password, bytes>>

\* savedata_norm = savedata.normalize()
Normalize ==
    /\ IsSome(savedata)
    /\ savedata_norm' = Some(Savedata_normalize(Unwrap(savedata)))
    /\ report' = None
    /\ FrontEndIdle
    /\ last' = "normalize"
    /\ UNCHANGED <<password, bytes, savedata>>

\* bytes = SerializedBytes::from_savedata(&savedata), of the raw or of the
\* normalized game state
FromSavedata ==
    \E s \in {savedata, savedata_norm} :
        /\ IsSome(s)
        /\ bytes' = Some(from_savedata(Unwrap(s)))
        /\ password' = None
        /\ report' = None
        /\ FrontEndIdle
        /\ last' = "from_savedata"
        /\ UNCHANGED <<savedata, savedata_norm>>

\* examples/load.rs main, after Password::parse
Load ==
    /\ IsSome(password)
    /\ report' = Some(load_main(Unwrap(password)))
    /\ bytes' = Some(from_password(Unwrap(password)))
    /\ savedata' = Unwrap(report').savedata
    /\ savedata_norm' = None
    /\ FrontEndIdle
    /\ last' = "load"
    /\ UNCHANGED password

Next ==
    \/ NewPassword
    \/ NewBytes
    \/ NewSavedata
    \/ Parse
    \/ Display
    \/ FromPassword
    \/ ToPassword
    \/ ToSavedata
    \/ Normalize
    \/ FromSavedata
    \/ Load

Spec == Init /\ [][Next]_vars

---------------------------------------------------------------------------
(* The normalizer on its own: a run starts from a game state with any      *)
(* equipment and normalizes it.                                            *)

\* Savedata::default()
SavedataDefault ==
    [xp |-> 0, purse |-> 0, deposit |-> 0, age |-> 0, age_timer_hi |-> 0,
     spells |-> unpack_spells(0), events |-> unpack_events(0),
     treasures |-> unpack_treasures(0), minions |-> unpack_minions(0),
     bookmarks |-> unpack_bookmarks(0, 0), respawn |-> 0,
     equipment |-> EquipmentDefault, inventory |-> <<>>]

\* Every equipment: each of the eight indices over its whole range.
EquipmentInputs == EquipmentType

InitNorm ==
    /\ \E e \in EquipmentInputs :
           savedata = Some([SavedataDefault EXCEPT !.equipment = e])
    /\ password = None
    /\ bytes = None
    /\ savedata_norm = None
    /\ report = None
    /\ arg = None
    /\ text = None
    /\ error = None
    /\ last = "Savedata"

NextNorm == Normalize

SpecNorm == InitNorm /\ [][NextNorm]_vars

---------------------------------------------------------------------------
(* password.rs / examples/generate.rs: the second-character pruning of the *)
(* generator, on passwords grown from every two-symbol prefix.             *)

\* Password::is_invalid_second_char with the parity test inverted
is_invalid_second_char_odd(pc_second) == pc_second % 2 = 1

\* Password::is_invalid_second_char
is_invalid_second_char(pc_second) == pc_second % 2 = 0

\* every two-symbol slice
PrefixInputs == {<<p0, p1>> : p0 \in Symbol, p1 \in Symbol}

\* The symbol the caller appends to the password p (Len(p) >= 2).  At an
\* even position it is a mix of the decoded symbols so far; at an odd one it
\* is the symbol whose decoded value makes the payload sum equal the header,
\* so that the passwords grown include checksum-valid ones.
TailSymbol(p) ==
    LET n == Len(p)
        b == from_password(p)
        y == IF n % 2 = 0
             THEN (7 * b[n] + 3 * b[n - 1] + n) % 64
             ELSE (b[1] + 64 * n - SumOf(SubSeq(b, 3, n))) % 64
    IN  Xor((y + EncodeAdd(n)) % 64, p[n])

InitPrefix ==
    /\ \E chars \in PrefixInputs : password = Password_new(chars)
    /\ bytes = None
    /\ savedata = None
    /\ savedata_norm = None
    /\ report = None
    /\ arg = None
    /\ text = None
    /\ error = None
    /\ last = "Password::new"

\* Solver::dfs: self.password.push(pc), the password then rebuilt from the
\* longer slice
Push ==
    /\ IsSome(password)
    /\ Len(Unwrap(password)) < MAX_LEN
    /\ password' = Password_new(Append(Unwrap(password), TailSymbol(Unwrap(password))))
    /\ bytes' = None
    /\ FrontEndIdle
    /\ last' = "push"
    /\ UNCHANGED <<savedata, savedata_norm, report>>

NextPrefix ==
    \/ Push
    \/ FromPassword

SpecPrefix == InitPrefix /\ [][NextPrefix]_vars

---------------------------------------------------------------------------
(* The buffer side on its own: a run starts from a buffer built by the     *)
(* caller, which is decoded, or turned into a password and loaded.         *)

NextBytes ==
    \/ NewBytes
    \/ ToSavedata
    \/ ToPassword
    \/ Load

SpecBytes == Init /\ [][NextBytes]_vars

---------------------------------------------------------------------------
(* The codec on its own: a run starts from a game state or a buffer built  *)
(* by the caller and encodes, enciphers, deciphers and decodes it.         *)

NextCodec ==
    \/ NewSavedata
    \/ NewBytes
    \/ Normalize
    \/ FromSavedata
    \/ ToPassword
    \/ FromPassword
    \/ ToSavedata

SpecCodec == Init /\ [][NextCodec]_vars

---------------------------------------------------------------------------
(* The front end on its own: a run parses a text and renders the password  *)
(* it obtained.                                                            *)

NextFront ==
    \/ Parse
    \/ Display

SpecFront == Init /\ [][NextFront]_vars

---------------------------------------------------------------------------
(* Properties                                                              *)

\* symbols 2.. of a buffer (the payload; empty when the buffer has no more
\* than the two header symbols)
Payload(b) == SubSeq(b, 3, Len(b))

\* C1: the cipher is a bijection on the symbol sequences of each length
\* 1..=38: to_password(from_password(p)) = p for the password p a caller
\* holds, and from_password(to_password(b)) = b for the buffer b it holds;
\* both transforms keep the length and stay within the symbols 0..63.
C1_CipherRoundTrip ==
    /\ IsSome(password) =>
          LET p == Unwrap(password)
              d == from_password(p)
          IN  /\ to_password(d) = p
              /\ Len(d) = Len(p)
              /\ \A i \in 1..Len(d) : d[i] \in Symbol
    /\ IsSome(bytes) =>
          LET b == Unwrap(bytes)
              e == to_password(b)
          IN  /\ from_password(e) = b
              /\ Len(e) = Len(b)
              /\ \A i \in 1..Len(e) : e[i] \in Symbol

\* C1 witness: a maximum-length buffer has been encoded to a password whose
\* decoding is that buffer, and the password is not the buffer itself.
C1_Witness ==
    /\ last = "to_password"
    /\ IsSome(bytes) /\ IsSome(password)
    /\ Len(Unwrap(bytes)) = MAX_LEN
    /\ Unwrap(password) # Unwrap(bytes)
    /\ from_password(Unwrap(password)) = Unwrap(bytes)

\* C2: the buffer from_savedata returns is checksum-valid: its symbols 0
\* and 1 are the sum modulo 64 and the XOR of its symbols at positions >= 2,
\* checksum_is_ok holds of it and the password to_password makes of it is
\* valid.
C2_EncodeIsChecksumValid ==
    last = "from_savedata" =>
        LET b == Unwrap(bytes)
        IN  /\ Len(b) > 2
            /\ b[1] = SumOf(Payload(b)) % 64
            /\ b[2] = XorOf(Payload(b))
            /\ checksum_is_ok(b)
            /\ is_valid(to_password(b))

\* C2 witness: a game state with a full inventory has been encoded (the
\* longest buffer from_savedata makes, 29 symbols).
C2_Witness ==
    /\ last = "from_savedata"
    /\ IsSome(savedata)
    /\ Len(Unwrap(savedata).inventory) = InventoryCAP
    /\ bytes = Some(from_savedata(Unwrap(savedata)))
    /\ Len(Unwrap(bytes)) = 29

\* C3: to_savedata returns a game state exactly when the embedded checksum
\* equals the calculated one, and Password::is_valid gives the same verdict
\* for the buffer decoded from a password.
C3_DecodeIffChecksum ==
    /\ last = "to_savedata" =>
          (IsSome(savedata) <=>
              checksum_embed(Unwrap(bytes)) = checksum_calculated(Unwrap(bytes)))
    /\ last = "load" =>
          /\ bytes = Some(from_password(Unwrap(password)))
          /\ is_valid(Unwrap(password)) <=> IsSome(savedata)
          /\ IsSome(savedata) <=>
                checksum_embed(Unwrap(bytes)) = checksum_calculated(Unwrap(bytes))

\* C3 witness: a maximum-length buffer with a matching checksum has been
\* decoded to a game state.
C3_Witness ==
    /\ last = "to_savedata"
    /\ Len(Unwrap(bytes)) = MAX_LEN
    /\ checksum_is_ok(Unwrap(bytes))
    /\ IsSome(savedata)

ProducedByEncode(b) ==
    /\ checksum_is_ok(b)
    /\ from_savedata(to_savedata_fields(SerializedBits_from_bytes(b))) = b

\* C5 as stated: the checksum of a buffer matches if and only if the buffer
\* was produced by an encode operation.
C5_Original ==
    IsSome(bytes) => (checksum_is_ok(Unwrap(bytes)) <=> ProducedByEncode(Unwrap(bytes)))

\* C5 as amended: every buffer produced by an encode operation has a
\* matching checksum (embedded = calculated).  The converse is not claimed:
\* buffers no encode produces, such as the one decoded from "ふ", match too.
C5_EncodedChecksumMatches ==
    /\ last = "from_savedata" =>
          checksum_embed(Unwrap(bytes)) = checksum_calculated(Unwrap(bytes))
    /\ IsSome(bytes) /\ ProducedByEncode(Unwrap(bytes)) =>
          checksum_embed(Unwrap(bytes)) = checksum_calculated(Unwrap(bytes))

\* C5 witness: a game state with an empty inventory has been encoded (the
\* shortest buffer from_savedata makes, 22 symbols) and its checksum matches.
C5_Witness ==
    /\ last = "from_savedata"
    /\ Len(Unwrap(bytes)) = 22
    /\ ProducedByEncode(Unwrap(bytes))

\* C6: normalization is idempotent: the game state normalize returned, for
\* every combination of the eight equipment indices, is returned unchanged
\* by a second normalize.
C6_NormalizeIdempotent ==
    last = "normalize" =>
        LET n == Unwrap(savedata_norm)
        IN  /\ Savedata_normalize(n) = n
            /\ Equipment_normalize(n.equipment) = n.equipment

\* C6 witness: a game state whose weapon, armor and shoes all alias has been
\* normalized, and normalization changed it.
C6_Witness ==
    /\ last = "normalize"
    /\ Unwrap(savedata).equipment.weapon = 15
    /\ Unwrap(savedata).equipment.armor = 15
    /\ Unwrap(savedata).equipment.shoes = 7
    /\ savedata_norm # savedata

\* The zone table of the normalizer, in cascade order: a value in `keep` is
\* copied to its own field, a value in `clear` writes nothing, a value in
\* `alias` writes value - sub to the field `target`.
ZoneTable ==
    << [field |-> "helm", keep |-> 0..2, clear |-> {3}, alias |-> {},
        target |-> "helm", sub |-> 0],
       [field |-> "weapon", keep |-> 0..10, clear |-> 11..12, alias |-> 13..15,
        target |-> "armor", sub |-> 12],
       [field |-> "armor", keep |-> 0..9, clear |-> 10..11, alias |-> 12..15,
        target |-> "shoes", sub |-> 11],
       [field |-> "shoes", keep |-> 0..4, clear |-> 5..6, alias |-> {7},
        target |-> "accessory0", sub |-> 6],
       [field |-> "accessory0", keep |-> 0..2, clear |-> {3}, alias |-> {},
        target |-> "accessory0", sub |-> 0],
       [field |-> "accessory1", keep |-> 0..2, clear |-> {3}, alias |-> {},
        target |-> "accessory1", sub |-> 0] >>

RECURSIVE ZoneCascade(_, _, _)
\* the output after the categories k.. of the table have been processed
ZoneCascade(e, out, k) ==
    IF k > Len(ZoneTable) THEN out
    ELSE LET z == ZoneTable[k]
             v == e[z.field]
         IN  ZoneCascade(e,
                 IF v \in z.keep THEN [out EXCEPT ![z.field] = v]
                 ELSE IF v \in z.alias THEN [out EXCEPT ![z.target] = v - z.sub]
                 ELSE out,
                 k + 1)

\* C7: Equipment::normalize implements the zone table: its helm, weapon,
\* armor, shoes, accessory0 and accessory1 are those of the cascade run from
\* an all-zero output over the table in order, and every input value lies in
\* exactly one zone of its category.
C7_NormalizeZoneTable ==
    last = "normalize" =>
        LET e == Unwrap(savedata).equipment
            n == Unwrap(savedata_norm).equipment
            c == ZoneCascade(e, EquipmentDefault, 1)
        IN  /\ \A k \in 1..Len(ZoneTable) :
                  LET z == ZoneTable[k]
                  IN  /\ n[z.field] = c[z.field]
                      /\ Cardinality({zone \in {z.keep, z.clear, z.alias} :
                                         e[z.field] \in zone}) = 1
                      /\ z.keep \cap z.clear = {}
                      /\ z.keep \cap z.alias = {}
                      /\ z.clear \cap z.alias = {}

\* C7 witness: an equipment with a weapon in the alias zone and an armor in
\* the clear zone has been normalized: the armor is the aliased weapon - 12.
C7_Witness ==
    /\ last = "normalize"
    /\ Unwrap(savedata).equipment.weapon = 14
    /\ Unwrap(savedata).equipment.armor = 10
    /\ Unwrap(savedata_norm).equipment.weapon = 0
    /\ Unwrap(savedata_norm).equipment.armor = 2

\* the fields of a game state other than its equipment
NonEquipment(s) ==
    <<s.xp, s.purse, s.deposit, s.age, s.age_timer_hi, s.spells, s.events,
      s.treasures, s.minions, s.bookmarks, s.respawn, s.inventory>>

\* C8: Savedata::normalize changes nothing outside the six cascaded
\* equipment fields: every other field and the inventory of the result are
\* those of the input, accessory2 and accessory3 are copied, and the input
\* game state is the same after the call.
C8_NormalizeFrame ==
    [][Normalize =>
          /\ savedata' = savedata
          /\ NonEquipment(Unwrap(savedata_norm')) = NonEquipment(Unwrap(savedata))
          /\ Unwrap(savedata_norm').equipment.accessory2
                = Unwrap(savedata).equipment.accessory2
          /\ Unwrap(savedata_norm').equipment.accessory3
                = Unwrap(savedata).equipment.accessory3
          /\ DOMAIN Unwrap(savedata_norm') = DOMAIN Unwrap(savedata)]_vars

\* C8 witness: a game state with a full inventory and non-zero fields has
\* been normalized to a different game state.
C8_Witness ==
    /\ last = "normalize"
    /\ savedata_norm # savedata
    /\ Len(Unwrap(savedata).inventory) = InventoryCAP
    /\ Unwrap(savedata).xp > 0
    /\ Unwrap(savedata).equipment.accessory3 = 1
    /\ NonEquipment(Unwrap(savedata_norm)) = NonEquipment(Unwrap(savedata))

\* the game state test_load_fu expects of "ふ"
FuSavedata ==
    [xp |-> 65535, purse |-> 65535, deposit |-> 63, age |-> 255,
     age_timer_hi |-> 255, spells |-> SpellsALL, events |-> EventsALL,
     treasures |-> TreasuresALL, minions |-> MinionsALL,
     bookmarks |-> BookmarksALL, respawn |-> 15,
     equipment |-> EquipmentOf(3, 15, 15, 7, 3, 3, 1, 1),
     inventory |-> <<63, 63, 63, 63, 63, 63, 63, 63>>]

\* number of payload symbols (positions >= 2) of a buffer
PayloadLen(b) == IF Len(b) > 2 THEN Len(b) - 2 ELSE 0

\* C9: when a checksum-valid buffer supplies k < 27 payload symbols,
\* to_savedata reads the bits 6k..161 of the stream as 1, so each field that
\* lies wholly at or after bit 6k reads as its maximum (all flags set), and
\* the inventory groups at or after bit 6k read as items 63 unless an earlier
\* group ended the inventory; the password "ふ" is valid and decodes to
\* the all-maximum game state with eight items 63.
C9_MissingBitsReadAsOne ==
    /\ last \in {"to_savedata", "load"} /\ IsSome(savedata)
          /\ PayloadLen(Unwrap(bytes)) < 27 =>
          LET b == Unwrap(bytes)
              m == 6 * PayloadLen(b)
              bits == SerializedBits_from_bytes(b)
              s == Unwrap(savedata)
          IN  /\ Len(bits) = 162
              /\ \A i \in m..161 : bits[i + 1] = 1
              /\ \A i \in 0..(m - 1) :
                    bits[i + 1] = (b[3 + (i \div 6)] \div Pow2(5 - (i % 6))) % 2
              /\ m <= 0 => s.age_timer_hi = 255
              /\ m <= 8 => s.purse \div 256 = 255
              /\ m <= 16 => s.age = 255
              /\ m <= 24 => s.purse % 256 = 255
              /\ m <= 32 => s.xp % 256 = 255
              /\ m <= 40 => s.deposit = 63
              /\ m <= 46 => s.xp \div 256 = 255
              /\ m <= 54 => s.spells = SpellsALL
              /\ m <= 62 => s.treasures = TreasuresALL
              /\ m <= 67 => s.respawn = 15
              /\ m <= 71 => s.bookmarks.hien /\ s.bookmarks.hohoemi
              /\ m <= 73 => s.minions = MinionsALL
              /\ m <= 76 => [s.bookmarks EXCEPT !.hien = TRUE, !.hohoemi = TRUE]
                               = BookmarksALL
              /\ m <= 84 => s.events = EventsALL
              /\ m <= 92 => s.equipment.helm = 3
              /\ m <= 94 => s.equipment.weapon = 15
              /\ m <= 98 => s.equipment.armor = 15
              /\ m <= 102 => s.equipment.shoes = 7
              /\ m <= 105 => s.equipment.accessory0 = 3
              /\ m <= 107 => s.equipment.accessory1 = 3
              /\ m <= 109 => s.equipment.accessory2 = 1
              /\ m <= 110 => s.equipment.accessory3 = 1
              /\ \A j \in 0..7 :
                    m <= 111 + 6 * j /\ Len(s.inventory) >= j =>
                        /\ Len(s.inventory) = 8
                        /\ \A i \in (j + 1)..8 : s.inventory[i] = 63
    /\ last \in {"to_savedata", "load"} /\ bytes = Some(from_password(PwFu)) =>
          /\ is_valid(PwFu)
          /\ savedata = Some(FuSavedata)

\* C9 witness: the password "ふ" has been decoded, through its buffer of no
\* payload symbol, to the all-maximum game state.
C9_Witness ==
    /\ last = "to_savedata"
    /\ password = Some(PwFu)
    /\ bytes = Some(<<63>>)
    /\ savedata = Some(FuSavedata)

\* C10: among the 64 single-symbol passwords, a password is checksum-valid
\* exactly when its decoded symbol 0 is 63, which is the case for "ふ"
\* (0x1B) and for no other symbol; "あ" (symbol 0) fails validation.
C10_SingleSymbolPasswords ==
    IsSome(password) /\ Len(Unwrap(password)) = 1 =>
        LET p == Unwrap(password)
        IN  /\ is_valid(p) <=> from_password(p)[1] = 63
            /\ is_valid(p) <=> p = <<27>>
            /\ p = <<0>> => ~is_valid(p)
            /\ last = "load" => (IsSome(savedata) <=> p = <<27>>)

\* C10 witness: the password "あ" has been loaded and rejected.
C10_Witness ==
    /\ last = "load"
    /\ password = Some(<<0>>)
    /\ savedata = None
    /\ Unwrap(report).kind = "checksum mismatch"

\* C11: pruning property: a password of length 2..38 whose second symbol is
\* even (is_invalid_second_char is true of it) is not checksum-valid,
\* whatever its first symbol and whatever follows the two-symbol prefix; its
\* decoded header is that of its two-symbol prefix.
C11_PrunedPrefixNeverValid ==
    last = "from_password" /\ Len(Unwrap(password)) >= 2 =>
        LET p == Unwrap(password)
            b == Unwrap(bytes)
        IN  /\ is_invalid_second_char(p[2]) => ~checksum_is_ok(b) /\ ~is_valid(p)
            /\ SubSeq(b, 1, 2) = from_password(SubSeq(p, 1, 2))

\* C11 witness: a password of the maximum length with an even second symbol
\* has been decoded, and its checksum does not match.
C11_Witness ==
    /\ last = "from_password"
    /\ Len(Unwrap(password)) = MAX_LEN
    /\ Unwrap(password)[1] = 27
    /\ Unwrap(password)[2] = 2
    /\ ~checksum_is_ok(Unwrap(bytes))

\* a checksum-valid password longer than two symbols, grown from a prefix
\* with an odd second symbol, has been reached
C11_ValidExtensionReached ==
    /\ last = "from_password"
    /\ Len(Unwrap(password)) > 2
    /\ checksum_is_ok(Unwrap(bytes))

\* C12: for every two-symbol password [p0, p1], the embedded checksum of
\* its decoded buffer has sum_add and sum_xor of equal parity exactly when
\* p1 is odd: is_invalid_second_char(p1) equals their parities differing,
\* for every p0.
C12_HeaderParity ==
    last = "from_password" /\ Len(Unwrap(password)) = 2 =>
        LET p == Unwrap(password)
            embed == checksum_embed(Unwrap(bytes))
        IN  /\ (embed.sum_add % 2 = embed.sum_xor % 2) <=> (p[2] % 2 = 1)
            /\ is_invalid_second_char(p[2])
                  <=> (embed.sum_add % 2 # embed.sum_xor % 2)
            /\ embed.sum_add = wrapping_sub(Xor(p[1], 31), 5) % 64
            /\ embed.sum_xor = wrapping_sub(Xor(p[2], p[1]), 25) % 64

\* C12 witness: a two-symbol password with odd first and even second symbol
\* has been decoded; the parities of its header differ.
C12_Witness ==
    /\ last = "from_password"
    /\ password = Some(<<1, 0>>)
    /\ checksum_embed(Unwrap(bytes)).sum_add % 2 = 1
    /\ checksum_embed(Unwrap(bytes)).sum_xor % 2 = 0

\* p is a prefix of c, position by position
IsPrefixOf(p, c) == Len(p) <= Len(c) /\ \A i \in 1..Len(p) : p[i] = c[i]

\* C13: a password is special exactly when its whole symbol sequence is a
\* prefix, of one symbol or more, of the special-audio or of the
\* special-enemy constant; a password that differs from both constants at
\* some position, or is longer than the constant it matches, is not special.
C13_SpecialIffPrefix ==
    IsSome(password) =>
        LET p == Unwrap(password)
        IN  /\ Len(SPECIAL_AUDIO) = 13 /\ Len(SPECIAL_ENEMY) = 11
            /\ is_special(p) <=>
                  IsPrefixOf(p, SPECIAL_AUDIO) \/ IsPrefixOf(p, SPECIAL_ENEMY)
            /\ is_special_audio(p) <=> IsPrefixOf(p, SPECIAL_AUDIO)
            /\ is_special_enemy(p) <=> IsPrefixOf(p, SPECIAL_ENEMY)
            /\ p = <<12>> => is_special(p)
            /\ (\A c \in {SPECIAL_AUDIO, SPECIAL_ENEMY} :
                   Len(p) > Len(c) \/ \E i \in 1..Len(p) : p[i] # c[i])
                  => ~is_special(p)

\* C13 witness: the text "すべてのき" has been parsed to a password, a
\* proper prefix of the special-audio constant only, and it is special.
C13_Witness ==
    /\ last = "Password::parse"
    /\ password = Some(SubSeq(SPECIAL_AUDIO, 1, 5))
    /\ is_special(Unwrap(password))
    /\ ~is_special_enemy(Unwrap(password))

\* a password one symbol longer than the special-enemy constant has been
\* parsed and is not special
C13_LongerReached ==
    /\ last = "Password::parse"
    /\ password = Some(Append(SPECIAL_ENEMY, 0))
    /\ ~is_special(Unwrap(password))

\* the 64 glyphs of the alphabet
Glyphs == {PasswordChar_to_char(x) : x \in Symbol}

\* C14: Password::parse succeeds if and only if the text has 1..38
\* characters, each one of the 64 glyphs, and then returns the corresponding
\* symbols in order; otherwise it returns an error and no password:
\* InvalidChar with the zero-based position and the character of a
\* non-alphabet character, InvalidLength for an empty text and for a text
\* of more than 38 alphabet characters.
C14_ParseOutcome ==
    last = "Password::parse" =>
        LET s == Unwrap(text)
            allGlyphs == \A i \in 1..Len(s) : s[i] \in Glyphs
        IN  /\ IsSome(password) <=>
                  Len(s) >= 1 /\ Len(s) <= 38 /\ allGlyphs
            /\ IsSome(password) =>
                  /\ error = None
                  /\ Len(Unwrap(password)) = Len(s)
                  /\ \A i \in 1..Len(s) :
                        /\ Unwrap(password)[i] \in Symbol
                        /\ PasswordChar_to_char(Unwrap(password)[i]) = s[i]
            /\ ~IsSome(password) =>
                  /\ IsSome(error)
                  /\ Unwrap(error).kind \in {"InvalidChar", "InvalidLength"}
            /\ IsSome(error) /\ Unwrap(error).kind = "InvalidChar" =>
                  LET e == Unwrap(error)
                  IN  /\ e.pos \in 0..(Len(s) - 1)
                      /\ s[e.pos + 1] = e.ch
                      /\ e.ch \notin Glyphs
            /\ ~allGlyphs /\ Len(s) <= 38 =>
                  IsSome(error) /\ Unwrap(error).kind = "InvalidChar"
            /\ s = <<>> => error = Some(InvalidLength)
            /\ allGlyphs /\ Len(s) > 38 => error = Some(InvalidLength)

\* C14 witness: the text "あいう?えお" has been parsed: no password, and
\* InvalidChar with position 3 and the character '?'.
C14_Witness ==
    /\ last = "Password::parse"
    /\ text = Some(<<12354, 12356, 12358, 63, 12360, 12362>>)
    /\ password = None
    /\ error = Some(InvalidChar(3, 63))

\* a text of 39 glyphs has been parsed: no password, InvalidLength
C14_TooLongReached ==
    /\ last = "Password::parse"
    /\ Len(Unwrap(text)) = MAX_LEN + 1
    /\ password = None
    /\ error = Some(InvalidLength)

\* a text of 38 glyphs has been parsed to a password of 38 symbols
C14_MaxLenReached ==
    /\ last = "Password::parse"
    /\ Len(Unwrap(text)) = MAX_LEN
    /\ IsSome(password)
    /\ Len(Unwrap(password)) = MAX_LEN

\* C15: the alphabet is a bijection between the 64 glyphs and the symbols
\* 0..63: from_char(to_char(x)) = x for every symbol x, to_char is total and
\* injective on the symbols, and from_char fails for every character that
\* is not one of the 64 glyphs.
C15_AlphabetBijection ==
    last = "Password::parse" /\ Len(Unwrap(text)) = 1 =>
        LET c == Unwrap(text)[1]
        IN  /\ \A x \in Symbol :
                  PasswordChar_from_char(PasswordChar_to_char(x)) = Some(x)
            /\ \A x, y \in Symbol :
                  PasswordChar_to_char(x) = PasswordChar_to_char(y) => x = y
            /\ Cardinality(Glyphs) = 64
            /\ \A d \in CharInputs \ Glyphs : PasswordChar_from_char(d) = None
            /\ c \in Glyphs =>
                  /\ IsSome(password)
                  /\ Unwrap(password)[1] \in Symbol
                  /\ PasswordChar_to_char(Unwrap(password)[1]) = c
                  /\ PasswordChar_from_char(c) = Some(Unwrap(password)[1])
            /\ c \notin Glyphs =>
                  /\ PasswordChar_from_char(c) = None
                  /\ password = None
                  /\ error = Some(InvalidChar(0, c))

\* C15 witness: the one-character text "が" has been parsed to the symbol
\* 0x2C, whose glyph it is.
C15_Witness ==
    /\ last = "Password::parse"
    /\ text = Some(<<12364>>)
    /\ password = Some(<<44>>)
    /\ PasswordChar_to_char(44) = 12364

\* the one-character text "を", not a glyph of the alphabet, has been
\* parsed and rejected
C15_NonGlyphReached ==
    /\ last = "Password::parse"
    /\ text = Some(<<12434>>)
    /\ password = None

\* the text test_save expects:
\* "おしぼひまきびねとしぼひまきびねとひげがけちめいかほがすざ"
SaveText ==
    <<12362, 12375, 12412, 12402, 12414, 12365, 12403, 12397,
      12392, 12375, 12412, 12402, 12414, 12365, 12403, 12397,
      12392, 12402, 12370, 12364, 12369, 12385, 12417, 12356,
      12363, 12411, 12364, 12377, 12374>>

\* C16: encoding the normalized form of the game state decoded from "ふ"
\* (from_savedata, then to_password) yields the 29-symbol password whose
\* glyphs read "おしぼひまきびねとしぼひまきびねとひげがけちめいかほがすざ".
C16_SaveOfFu ==
    /\ last \in {"to_password", "display"}
    /\ savedata = Some(FuSavedata)
    /\ IsSome(savedata_norm)
    /\ bytes = Some(from_savedata(Unwrap(savedata_norm)))
    => /\ savedata_norm = Some(Savedata_normalize(FuSavedata))
       /\ Len(Unwrap(password)) = 29
       /\ display(Unwrap(password)) = SaveText
       /\ last = "display" => text = Some(SaveText)

\* C16 witness: "ふ" has been decoded, normalized, encoded and turned into
\* a password, and the password rendered: the text is the expected one.
C16_Witness ==
    /\ last = "display"
    /\ savedata = Some(FuSavedata)
    /\ savedata_norm = Some(Savedata_normalize(FuSavedata))
    /\ bytes = Some(from_savedata(Unwrap(savedata_norm)))
    /\ password = Some(to_password(Unwrap(bytes)))
    /\ text = Some(SaveText)

\* C17: Password::new and SerializedBytes::new return a value holding
\* exactly the elements of the slice, in order, when its length is in
\* 1..=38, and None when the slice is empty or longer than 38; every
\* password and every buffer held has a length in 1..=38.
C17_CheckedConstructors ==
    /\ last = "Password::new" /\ IsSome(arg) =>
          LET chars == Unwrap(arg)
          IN  /\ Len(chars) \in 1..38 => password = Some(chars)
              /\ Len(chars) = 0 \/ Len(chars) > 38 => password = None
    /\ last = "SerializedBytes::new" =>
          LET buf == Unwrap(arg)
          IN  /\ Len(buf) \in 1..38 => bytes = Some(buf)
              /\ Len(buf) = 0 \/ Len(buf) > 38 => bytes = None
    /\ IsSome(password) => Len(Unwrap(password)) \in 1..38
    /\ IsSome(bytes) => Len(Unwrap(bytes)) \in 1..38

\* C17 witness: Password::new has been handed a slice of 39 symbols and
\* returned None.
C17_Witness ==
    /\ last = "Password::new"
    /\ IsSome(arg)
    /\ Len(Unwrap(arg)) = MAX_LEN + 1
    /\ password = None

\* SerializedBytes::new has returned None for the empty slice
C17_EmptyBufferReached ==
    /\ last = "SerializedBytes::new"
    /\ arg = Some(<<>>)
    /\ bytes = None

\* SerializedBytes::new has returned a buffer of 38 symbols
C17_MaxBufferReached ==
    /\ last = "SerializedBytes::new"
    /\ Len(Unwrap(arg)) = MAX_LEN
    /\ bytes = arg

\* C18: every game state to_savedata returns, for a checksum-valid buffer
\* of any length 1..=38, is well-formed: deposit <= 63, respawn <= 15,
\* helm <= 3, weapon <= 15, armor <= 15, shoes <= 7, accessory0 <= 3,
\* accessory1 <= 3, accessory2 <= 1, accessory3 <= 1, and the inventory
\* holds at most 8 items, each in 1..63; so the equipment lies in the
\* ranges Equipment::normalize matches on.
C18_DecodedWellFormed ==
    last \in {"to_savedata", "load"} /\ IsSome(savedata) =>
        LET s == Unwrap(savedata)
            e == s.equipment
        IN  /\ Len(Unwrap(bytes)) \in 1..38
            /\ checksum_is_ok(Unwrap(bytes))
            /\ s.xp \in 0..65535 /\ s.purse \in 0..65535
            /\ s.age \in 0..255 /\ s.age_timer_hi \in 0..255
            /\ s.deposit \in 0..63
            /\ s.respawn \in 0..15
            /\ e.helm \in 0..3 /\ e.weapon \in 0..15 /\ e.armor \in 0..15
            /\ e.shoes \in 0..7 /\ e.accessory0 \in 0..3 /\ e.accessory1 \in 0..3
            /\ e.accessory2 \in 0..1 /\ e.accessory3 \in 0..1
            /\ e \in EquipmentType
            /\ Len(s.inventory) <= 8
            /\ \A i \in 1..Len(s.inventory) : s.inventory[i] \in 1..63
            /\ Equipment_normalize(e) \in EquipmentType

\* C18 witness: a checksum-valid buffer has been decoded to a game state
\* whose inventory ended at an item 0 before the eighth group and whose
\* weapon index is 15, outside the real weapons.
C18_Witness ==
    /\ last = "to_savedata"
    /\ IsSome(savedata)
    /\ Len(Unwrap(savedata).inventory) \in 1..7
    /\ Unwrap(savedata).equipment.weapon > 10

\* a payload preceded by the header that matches it
WithHeader(payload) == <<SumOf(payload) % 64, XorOf(payload)>> \o payload

\* symbols to put at the positions >= 29 of a buffer
OverflowTails ==
    {<<>>} \cup {[i \in 1..n |-> Pat(j, i)] : n \in 1..(MAX_LEN - 29), j \in 0..(NumPatterns - 1)}

\* C19: buffer content beyond the 162-bit capacity is ignored: a
\* checksum-valid buffer with the same symbols at positions 2..28 as the
\* decoded one, whatever its symbols at positions >= 29, decodes to the same
\* game state; the bit stream of a buffer of any length, 38 included, has
\* exactly 162 bits, those of the positions 2..28.
C19_OverflowIgnored ==
    last \in {"to_savedata", "load"} /\ IsSome(savedata) =>
        LET b == Unwrap(bytes)
            upto == IF Len(b) < 29 THEN Len(b) ELSE 29
            bits == SerializedBits_from_bytes(b)
        IN  /\ Len(bits) = CAPACITY
            /\ bits = SerializedBits_from_bytes(SubSeq(b, 1, upto))
            /\ Len(to_savedata_fields(bits).inventory) <= InventoryCAP
            /\ Len(b) >= 29 =>
                  \A tail \in OverflowTails :
                      LET b2 == WithHeader(SubSeq(b, 3, 29) \o tail)
                      IN  /\ Len(b2) <= MAX_LEN
                          /\ checksum_is_ok(b2)
                          /\ to_savedata(b2) = savedata

\* C19 witness: a checksum-valid buffer of 38 symbols has been decoded, and
\* the buffer of its positions 2..28 alone, a different buffer, decodes to
\* the same game state.
C19_Witness ==
    /\ last = "to_savedata"
    /\ IsSome(savedata)
    /\ Len(Unwrap(bytes)) = MAX_LEN
    /\ WithHeader(SubSeq(Unwrap(bytes), 3, 29)) # SubSeq(Unwrap(bytes), 1, 29)
    /\ to_savedata(WithHeader(SubSeq(Unwrap(bytes), 3, 29))) = savedata

\* C20: from_password returns, for every password, a buffer of the same
\* length with every symbol in 0..63, computed by the decode steps:
\* b[0] = ((p[0] XOR 0x1F) - 0x05) mod 64 and, for i >= 1,
\* b[i] = ((p[i] XOR p[i-1]) - T[i mod 4]) mod 64 with T = [5, 25, 50, 33]
\* and p[i-1] the symbol of the password itself.  (Positions are 0-based in
\* this statement and 1-based in the formula.)
C20_DecodeSteps ==
    last = "from_password" =>
        LET p == Unwrap(password)
            b == Unwrap(bytes)
            T == <<5, 25, 50, 33>>
        IN  /\ IsSome(bytes)
            /\ Len(b) = Len(p)
            /\ \A i \in 1..Len(b) : b[i] \in 0..63
            /\ b[1] = (Xor(p[1], 31) - 5 + 64) % 64
            /\ \A i \in 2..Len(p) :
                  b[i] = (Xor(p[i], p[i - 1]) - T[((i - 1) % 4) + 1] + 64) % 64

\* C20 witness: a password of 38 symbols, not all equal, has been decoded
\* to a buffer of 38 symbols.
C20_Witness ==
    /\ last = "from_password"
    /\ Len(Unwrap(password)) = MAX_LEN
    /\ Len(Unwrap(bytes)) = MAX_LEN
    /\ Unwrap(password)[37] # Unwrap(password)[38]
    /\ Unwrap(password)[1] = 63

\* C21: checksum_embed returns (symbol 0, symbol 1) of a buffer of two
\* symbols or more, and (symbol 0, 63) of a buffer of one symbol.
C21_ChecksumEmbed ==
    IsSome(bytes) =>
        LET b == Unwrap(bytes)
            embed == checksum_embed(b)
            expected == IF Len(b) >= 2
                        THEN [sum_add |-> b[1], sum_xor |-> b[2]]
                        ELSE [sum_add |-> b[1], sum_xor |-> 63]
        IN  /\ embed = expected
            /\ last = "load" /\ Unwrap(report).kind = "checksum mismatch" =>
                  Unwrap(report).embed = Some(expected)

\* C21 witness: a one-symbol buffer whose symbol is not 63 has been loaded;
\* the mismatch report carries (symbol 0, 63) as its embedded checksum.
C21_Witness ==
    /\ last = "load"
    /\ Len(Unwrap(bytes)) = 1
    /\ Unwrap(bytes)[1] # 63
    /\ Unwrap(report).kind = "checksum mismatch"
    /\ Unwrap(report).embed = Some([sum_add |-> Unwrap(bytes)[1], sum_xor |-> 63])

\* XOR of the symbols of q, bit by bit: bit k of the result is the parity
\* of the number of symbols whose bit k is set
RECURSIVE BitCount(_, _)
BitCount(q, k) ==
    IF q = <<>> THEN 0 ELSE ((q[1] \div Pow2(k)) % 2) + BitCount(Tail(q), k)

XorByBits(q) ==
    (BitCount(q, 0) % 2) + 2 * (BitCount(q, 1) % 2) + 4 * (BitCount(q, 2) % 2)
    + 8 * (BitCount(q, 3) % 2) + 16 * (BitCount(q, 4) % 2) + 32 * (BitCount(q, 5) % 2)

\* C22: checksum_calculated returns (63, 63) for a buffer of one or two
\* symbols; for a buffer of 3..=38 symbols its sum_add is the mathematical
\* sum of the symbols at positions >= 2 modulo 64 and its sum_xor their XOR:
\* the wrapping 8-bit accumulation masked with 0x3F equals the unbounded
\* sum modulo 64, also when that sum exceeds 255.
C22_ChecksumCalculated ==
    IsSome(bytes) =>
        LET b == Unwrap(bytes)
            calculated == checksum_calculated(b)
        IN  /\ Len(b) <= 2 => calculated = [sum_add |-> 63, sum_xor |-> 63]
            /\ Len(b) >= 3 =>
                  /\ calculated.sum_add = SumOf(Payload(b)) % 64
                  /\ calculated.sum_xor = XorByBits(Payload(b))
            /\ last = "load" /\ Unwrap(report).kind = "checksum mismatch" =>
                  Unwrap(report).calculated = Some(calculated)

\* C22 witness: a buffer whose payload sums to more than 255, and not to a
\* multiple of 256, has been handed to SerializedBytes::new and decoded.
C22_Witness ==
    /\ last = "to_savedata"
    /\ Len(Unwrap(bytes)) = MAX_LEN
    /\ SumOf(Payload(Unwrap(bytes))) > 255
    /\ SumOf(Payload(Unwrap(bytes))) % 256 # 0
    /\ checksum_calculated(Unwrap(bytes)).sum_add = SumOf(Payload(Unwrap(bytes))) % 64

\* The bits of the payload symbols of buffer b, six per symbol, most
\* significant bit first.
StreamOf(b) ==
    [k \in 1..(6 * (Len(b) - 2)) |->
        (b[3 + ((k - 1) \div 6)] \div Pow2(5 - ((k - 1) % 6))) % 2]

\* The number written most significant bit first in the w bits of the
\* stream that follow bit offset off.
RECURSIVE FieldValue(_, _, _)
FieldValue(stream, off, w) ==
    IF w = 0 THEN 0 ELSE stream[off + w] + 2 * FieldValue(stream, off, w - 1)

\* The flags, first-listed first, as the bits of a number, most
\* significant first.
RECURSIVE FlagsValue(_)
FlagsValue(flags) ==
    IF flags = <<>> THEN 0
    ELSE (IF flags[Len(flags)] THEN 1 ELSE 0)
         + 2 * FlagsValue(SubSeq(flags, 1, Len(flags) - 1))

\* The 111 fixed bits of the stream hold the fields of game state s at the
\* offsets and widths of the packing order.
FixedLayout(stream, s) ==
    /\ FieldValue(stream, 0, 8) = s.age_timer_hi
    /\ FieldValue(stream, 8, 8) = s.purse \div 256
    /\ FieldValue(stream, 16, 8) = s.age
    /\ FieldValue(stream, 24, 8) = s.purse % 256
    /\ FieldValue(stream, 32, 8) = s.xp % 256
    /\ FieldValue(stream, 40, 6) = s.deposit
    /\ FieldValue(stream, 46, 8) = s.xp \div 256
    /\ FieldValue(stream, 54, 8) =
          FlagsValue(<<s.spells.houhi, s.spells.dadadidi, s.spells.fuyuu,
                       s.spells.mankintan, s.spells.hien, s.spells.inazuma,
                       s.spells.rokkaku, s.spells.kintan>>)
    /\ FieldValue(stream, 62, 5) =
          FlagsValue(<<s.treasures.swallow, s.treasures.hourai, s.treasures.hotoke,
                       s.treasures.fur, s.treasures.dragon>>)
    /\ FieldValue(stream, 67, 4) = s.respawn
    /\ FieldValue(stream, 71, 2) = FlagsValue(<<s.bookmarks.hien, s.bookmarks.hohoemi>>)
    /\ FieldValue(stream, 73, 3) =
          FlagsValue(<<s.minions.monkey, s.minions.pheasant, s.minions.dog>>)
    /\ FieldValue(stream, 76, 8) =
          FlagsValue(<<s.bookmarks.taketori, s.bookmarks.sarukani, s.bookmarks.kibou,
                       s.bookmarks.netaro, s.bookmarks.urashima, s.bookmarks.kintaro,
                       s.bookmarks.hanasaka, s.bookmarks.tabidachi>>)
    /\ FieldValue(stream, 84, 8) =
          FlagsValue(<<s.events.hohoemi, s.events.dragon, s.events.sarukani,
                       s.events.murata, s.events.netaro, s.events.urashima,
                       s.events.kintaro, s.events.hanasaka>>)
    /\ FieldValue(stream, 92, 2) = s.equipment.helm
    /\ FieldValue(stream, 94, 4) = s.equipment.weapon
    /\ FieldValue(stream, 98, 4) = s.equipment.armor
    /\ FieldValue(stream, 102, 3) = s.equipment.shoes
    /\ FieldValue(stream, 105, 2) = s.equipment.accessory0
    /\ FieldValue(stream, 107, 2) = s.equipment.accessory1
    /\ FieldValue(stream, 109, 1) = s.equipment.accessory2
    /\ FieldValue(stream, 110, 1) = s.equipment.accessory3

\* The stream to_savedata reads from buffer b: the bits of at most 27
\* payload symbols, followed by 1-bits up to 162.
StreamRead(b) ==
    [k \in 1..162 |->
        IF k <= 6 * (Len(b) - 2) THEN StreamOf(b)[k] ELSE 1]

\* C23: the payload bit stream written by from_savedata holds, most
\* significant bit first, age_timer_hi(8), purse high(8), age(8), purse
\* low(8), xp low(8), deposit(6), xp high(8), spells(8), treasures(5),
\* respawn(4), bookmarks hien and hohoemi(2), minions(3), the eight other
\* bookmarks(8), events(8), equipment(2,4,4,3,2,2,1,1) and then the
\* inventory; to_savedata reads the same fields at the same offsets, the
\* first-listed flag of each bookmarks group being the most significant.
C23_FieldLayout ==
    /\ last = "from_savedata" =>
          \E s \in {savedata, savedata_norm} :
              /\ IsSome(s)
              /\ bytes = Some(from_savedata(Unwrap(s)))
              /\ FixedLayout(StreamOf(Unwrap(bytes)), Unwrap(s))
              /\ \A i \in 1..Len(Unwrap(s).inventory) :
                    FieldValue(StreamOf(Unwrap(bytes)), 111 + 6 * (i - 1), 6)
                       = Unwrap(s).inventory[i]
    /\ last = "to_savedata" /\ IsSome(savedata) =>
          /\ FixedLayout(StreamRead(Unwrap(bytes)), Unwrap(savedata))
          /\ \A i \in 1..Len(Unwrap(savedata).inventory) :
                FieldValue(StreamRead(Unwrap(bytes)), 111 + 6 * (i - 1), 6)
                   = Unwrap(savedata).inventory[i]

\* C23 witness: a game state holding only the bookmark hien has been
\* encoded: bit 71 of the stream is the only fixed bit set.
C23_Witness ==
    /\ last = "from_savedata"
    /\ IsSome(savedata)
    /\ Unwrap(savedata).bookmarks.hien
    /\ ~Unwrap(savedata).bookmarks.hohoemi
    /\ Unwrap(savedata).xp = 0
    /\ StreamOf(Unwrap(bytes))[72] = 1
    /\ \A k \in 1..111 : k # 72 => StreamOf(Unwrap(bytes))[k] = 0

\* C23: a buffer has been decoded into a game state whose two bookmark
\* groups differ, read from bits 71..72 and 76..83.
C23_DecodedReached ==
    /\ last = "to_savedata"
    /\ IsSome(savedata)
    /\ Unwrap(savedata).bookmarks.hien # Unwrap(savedata).bookmarks.hohoemi
    /\ Unwrap(savedata).bookmarks.taketori # Unwrap(savedata).bookmarks.tabidachi
    /\ Len(Unwrap(bytes)) < 20

\* The number of bits from_savedata writes for an inventory of n items:
\* 111 fixed bits, 6 per item, and a 6-bit terminator below 8 items.
WrittenBits(n) == 111 + 6 * n + (IF n < 8 THEN 6 ELSE 0)

\* C24: inventory packing emits the 6-bit id of each held item in held
\* order, then exactly one 6-bit zero terminator when fewer than 8 items
\* are held (the empty inventory included) and none when 8 are held; the
\* stream is then padded with 0-bits to the next multiple of 6.
C24_InventoryPacking ==
    last = "from_savedata" =>
        \E s \in {savedata, savedata_norm} :
            /\ IsSome(s)
            /\ bytes = Some(from_savedata(Unwrap(s)))
            /\ LET inventory == Unwrap(s).inventory
                   n == Len(inventory)
                   stream == StreamOf(Unwrap(bytes))
                   bits == from_savedata_bits(Unwrap(s))
               IN  /\ Len(bits) = WrittenBits(n)
                   /\ \A i \in 1..n :
                         FieldValue(stream, 111 + 6 * (i - 1), 6) = inventory[i]
                   /\ n < 8 => FieldValue(stream, 111 + 6 * n, 6) = 0
                   /\ Len(stream) % 6 = 0
                   /\ Len(stream) >= WrittenBits(n)
                   /\ Len(stream) - WrittenBits(n) < 6
                   /\ \A k \in (WrittenBits(n) + 1)..Len(stream) : stream[k] = 0
                   /\ \A k \in 1..WrittenBits(n) :
                         stream[k] = bits[k]

\* C24 witness: a game state holding exactly 8 items has been encoded: 159
\* bits written, no terminator, three 0-bits of padding.
C24_Witness ==
    /\ last = "from_savedata"
    /\ IsSome(savedata)
    /\ savedata_norm = None
    /\ Len(Unwrap(savedata).inventory) = 8
    /\ Len(StreamOf(Unwrap(bytes))) = 162
    /\ FieldValue(StreamOf(Unwrap(bytes)), 153, 6) = Unwrap(savedata).inventory[8]

\* C24: a game state with an empty inventory has been encoded: the sixth
\* group after the 111 fixed bits is the terminator.
C24_EmptyReached ==
    /\ last = "from_savedata"
    /\ IsSome(savedata)
    /\ savedata_norm = None
    /\ Unwrap(savedata).inventory = <<>>
    /\ Len(StreamOf(Unwrap(bytes))) = 120
    /\ FieldValue(StreamOf(Unwrap(bytes)), 111, 6) = 0

\* The i-th 6-bit group of the stream from bit 111 on (i = 1..8).
InventoryGroup(stream, i) == FieldValue(stream, 111 + 6 * (i - 1), 6)

\* The number of groups read: up to and including the first zero group,
\* or all 8.
GroupsRead(stream) ==
    IF \E i \in 1..8 : InventoryGroup(stream, i) = 0
    THEN CHOOSE i \in 1..8 :
             /\ InventoryGroup(stream, i) = 0
             /\ \A j \in 1..(i - 1) : InventoryGroup(stream, j) # 0
    ELSE 8

\* The buffer holding the stream up to the bit at offset keep and the
\* bits of tail after it, under a matching checksum.
WithTail(stream, keep, tail) ==
    LET changed == [k \in 1..162 |-> IF k <= keep THEN stream[k] ELSE tail[k]]
    IN  WithHeader([g \in 1..27 |-> FieldValue(changed, 6 * (g - 1), 6)])

\* The tails tried: all zeros, all ones, alternating.
StreamTails ==
    {[k \in 1..162 |-> 0], [k \in 1..162 |-> 1], [k \in 1..162 |-> k % 2]}

\* C25: inventory unpacking reads 6-bit groups from bit 111 on and stops at
\* the first zero group or after 8 groups; the decoded inventory is the
\* nonzero groups read before that point, in order, and the stream after
\* the terminating zero group has no effect on the decoded game state.
C25_InventoryUnpacking ==
    last = "to_savedata" /\ IsSome(savedata) =>
        LET stream == StreamRead(Unwrap(bytes))
            read == GroupsRead(stream)
            n == IF InventoryGroup(stream, read) = 0 THEN read - 1 ELSE read
        IN  /\ Unwrap(savedata).inventory = [i \in 1..n |-> InventoryGroup(stream, i)]
            /\ \A i \in 1..n : InventoryGroup(stream, i) # 0
            /\ n < 8 =>
                  \A tail \in StreamTails :
                      to_savedata(WithTail(stream, 111 + 6 * read, tail)) = savedata

\* C25 witness: a decoded stream holds items, then a zero group, then a
\* nonzero group that is not part of the decoded inventory.
C25_Witness ==
    /\ last = "to_savedata"
    /\ IsSome(savedata)
    /\ Len(Unwrap(savedata).inventory) \in 1..6
    /\ LET stream == StreamRead(Unwrap(bytes))
           n == Len(Unwrap(savedata).inventory)
       IN  /\ InventoryGroup(stream, n + 1) = 0
           /\ InventoryGroup(stream, n + 2) # 0

\* C25: a stream with eight nonzero groups has been decoded into an
\* inventory of 8 items.
C25_FullReached ==
    /\ last = "to_savedata"
    /\ IsSome(savedata)
    /\ Len(Unwrap(savedata).inventory) = 8
    /\ \A i \in 1..8 : InventoryGroup(StreamRead(Unwrap(bytes)), i) # 0

\* C26: in Equipment::normalize an alias written by an earlier category is
\* replaced only by the target category's keep zone: with weapon in 13..15
\* the output armor is the input armor when that is in 0..9 and weapon - 12
\* when it is in 10..15; with armor in 12..15 the output shoes is the input
\* shoes when that is in 0..4 and armor - 11 when it is in 5..7; with
\* shoes = 7 the output accessory0 is the input accessory0 when that is in
\* 0..2 and 1 when it is 3.
C26_AliasVisibility ==
    last = "normalize" =>
        LET e == Unwrap(savedata).equipment
            n == Unwrap(savedata_norm).equipment
        IN  /\ e.weapon \in 13..15 =>
                  /\ e.armor \in 0..9 => n.armor = e.armor
                  /\ e.armor \in 10..15 => n.armor = e.weapon - 12
            /\ e.armor \in 12..15 =>
                  /\ e.shoes \in 0..4 => n.shoes = e.shoes
                  /\ e.shoes \in 5..7 => n.shoes = e.armor - 11
            /\ e.shoes = 7 =>
                  /\ e.accessory0 \in 0..2 => n.accessory0 = e.accessory0
                  /\ e.accessory0 = 3 => n.accessory0 = 1

\* C26 witness: an equipment whose weapon, armor and shoes are all in their
\* alias zones has been normalized: the armor and shoes aliases are
\* visible, the accessory0 alias is replaced by the kept input.
C26_Witness ==
    /\ last = "normalize"
    /\ Unwrap(savedata).equipment.weapon = 15
    /\ Unwrap(savedata).equipment.armor = 13
    /\ Unwrap(savedata).equipment.shoes = 7
    /\ Unwrap(savedata).equipment.accessory0 = 2
    /\ Unwrap(savedata_norm).equipment.armor = 3
    /\ Unwrap(savedata_norm).equipment.shoes = 2
    /\ Unwrap(savedata_norm).equipment.accessory0 = 2

\* C26: an equipment with weapon in the alias zone and armor in the keep
\* zone has been normalized: the alias is replaced by the input armor.
C26_KeepReplacesAlias ==
    /\ last = "normalize"
    /\ Unwrap(savedata).equipment.weapon = 13
    /\ Unwrap(savedata).equipment.armor = 5
    /\ Unwrap(savedata_norm).equipment.armor = 5

\* C27: for every well-formed game state, from_savedata writes at most 159
\* bits before padding (111 fixed bits and at most 48 inventory bits), never
\* more than the 162 bits of capacity, and returns 22 + min(n, 7) symbols
\* for an inventory of n items: between 22 and 29, never more than 38.
C27_EncodedSize ==
    /\ \A s \in {savedata, savedata_norm} :
          IsSome(s) =>
              LET bits == from_savedata_bits(Unwrap(s))
                  n == Len(Unwrap(s).inventory)
              IN  /\ Len(bits) <= 159
                  /\ Len(bits) <= CAPACITY
                  /\ Len(bits) - 111 \in 0..48
                  /\ Len(from_savedata(Unwrap(s))) = 22 + (IF n < 7 THEN n ELSE 7)
    /\ last = "from_savedata" =>
          /\ Len(Unwrap(bytes)) \in 22..29
          /\ Len(Unwrap(bytes)) <= MAX_LEN
          /\ \E s \in {savedata, savedata_norm} :
                /\ IsSome(s)
                /\ Len(Unwrap(bytes)) =
                      22 + (IF Len(Unwrap(s).inventory) < 7
                            THEN Len(Unwrap(s).inventory) ELSE 7)

\* C27 witness: a game state holding 8 items has been encoded into 29
\* symbols from 159 bits.
C27_Witness ==
    /\ last = "from_savedata"
    /\ IsSome(savedata)
    /\ savedata_norm = None
    /\ Len(Unwrap(savedata).inventory) = 8
    /\ Len(from_savedata_bits(Unwrap(savedata))) = 159
    /\ Len(Unwrap(bytes)) = 29

\* C27: a game state holding 7 items has been encoded into 29 symbols, and
\* one holding none into 22.
C27_SevenReached ==
    /\ last = "from_savedata"
    /\ IsSome(savedata)
    /\ savedata_norm = None
    /\ Len(Unwrap(savedata).inventory) = 7
    /\ Len(Unwrap(bytes)) = 29

C27_EmptyReached ==
    /\ last = "from_savedata"
    /\ IsSome(savedata)
    /\ savedata_norm = None
    /\ Len(Unwrap(savedata).inventory) = 0
    /\ Unwrap(savedata).xp = 65535
    /\ Len(Unwrap(bytes)) = 22

\* C28: encoding then decoding returns the original state: for every
\* well-formed game state s, normalized or not, with any inventory of 0..8
\* nonzero ids, to_savedata(from_savedata(s)) = s and
\* from_password(to_password(from_savedata(s))).to_savedata() = s; the
\* 0-bits padded on encode and the 1-bits padded on decode change no field
\* and add no item.
C28_EncodeDecodeRoundTrip ==
    /\ \A s \in {savedata, savedata_norm} :
          IsSome(s) =>
              LET b == from_savedata(Unwrap(s))
              IN  /\ to_savedata(b) = s
                  /\ to_savedata(from_password(to_password(b))) = s
    /\ last = "from_savedata" =>
          to_savedata(Unwrap(bytes)) \in {savedata, savedata_norm}

\* C28 witness: a game state that is not normalized and holds 3 items has
\* been encoded, enciphered, deciphered and decoded: the state decoded is
\* the one whose encoding the buffer is, behind three 0-bits and 1-bits of
\* padding.
C28_Witness ==
    /\ last = "to_savedata"
    /\ IsSome(password)
    /\ IsSome(savedata)
    /\ Len(Unwrap(savedata).inventory) = 3
    /\ Unwrap(savedata).equipment.weapon = 15
    /\ Savedata_normalize(Unwrap(savedata)) # Unwrap(savedata)
    /\ Unwrap(bytes) = from_savedata(Unwrap(savedata))
    /\ Unwrap(bytes) = from_password(Unwrap(password))
    /\ Len(Unwrap(bytes)) = 25

\* C28: a game state holding 8 items has been encoded and decoded.
C28_FullReached ==
    /\ last = "to_savedata"
    /\ IsSome(savedata)
    /\ Len(Unwrap(savedata).inventory) = 8
    /\ Unwrap(bytes) = from_savedata(Unwrap(savedata))
    /\ Unwrap(savedata).bookmarks.hien

\* The 0-based indices of the characters of text s that are not glyphs.
Offenders(s) == {i \in 0..(Len(s) - 1) : s[i + 1] \notin Glyphs}

\* C29: Password::parse reports the first offender of a text that is both
\* too long and holds a character outside the alphabet: a character
\* outside the alphabet at index i <= 38 with only glyphs before it gives
\* InvalidChar with pos i, also when the text has more than 38 characters,
\* and a text whose first 39 characters are glyphs gives InvalidLength
\* whatever follows them.
C29_FirstOffender ==
    last = "Password::parse" =>
        LET s == Unwrap(text)
            bad == Offenders(s)
        IN  /\ \A i \in bad :
                  (i <= 38 /\ \A j \in bad : i <= j) =>
                      /\ password = None
                      /\ error = Some(InvalidChar(i, s[i + 1]))
            /\ (Len(s) >= 39 /\ \A j \in bad : j >= 39) =>
                  /\ password = None
                  /\ error = Some(InvalidLength)

\* C29 witness: a text of 41 characters whose character at index 38 is the
\* first of two outside the alphabet has been parsed: InvalidChar at 38.
C29_Witness ==
    /\ last = "Password::parse"
    /\ Len(Unwrap(text)) = 41
    /\ Offenders(Unwrap(text)) = {38, 39}
    /\ password = None
    /\ error = Some(InvalidChar(38, 63))

\* C29: a text of 41 characters whose only characters outside the alphabet
\* are at indices 39 and 40 has been parsed: InvalidLength.
C29_LengthFirstReached ==
    /\ last = "Password::parse"
    /\ Len(Unwrap(text)) = 41
    /\ Offenders(Unwrap(text)) = {39, 40}
    /\ password = None
    /\ error = Some(InvalidLength)

\* C29: a text of 40 characters with a character outside the alphabet at
\* index 0 has been parsed: InvalidChar at 0.
C29_EarlyOffenderReached ==
    /\ last = "Password::parse"
    /\ Len(Unwrap(text)) = 40
    /\ 0 \in Offenders(Unwrap(text))
    /\ error = Some(InvalidChar(0, 63))

===========================================================================
